---- MODULE Spec2Model ----
(***************************************************************************)
(* fastbin: zero-copy binary layout engine.                                *)
(*                                                                         *)
(* Memory is modelled byte by byte.  A buffer is a function from byte      *)
(* offsets 0..n-1 to bytes 0..255.  A size_t is eight little-endian bytes  *)
(* (models.hpp:5-6); the model never forms a 64-bit number: it reads the   *)
(* low 56 bits and the top byte of a stored word separately, as the        *)
(* generated accessors do with "& 0x00FFFFFFFFFFFFFF" and ">> 56".         *)
(***************************************************************************)
EXTENDS Integers, Sequences, FiniteSets, TLC

VARIABLES
    kind,    \* record spec: which generated record type the view is of
    buf,     \* record spec: the bytes of the record's buffer
    setv,    \* record spec (ghost): field -> value last passed to its setter
    done,    \* record spec (ghost): the fields whose setter has been called
    strict,  \* record spec (ghost): every call so far was in schema order
    early,   \* record spec (ghost): setter calls made before an earlier variable field was set
    fin,     \* record spec: fastbin_finalize() has been called
    finbuf,  \* record spec (ghost): the bytes of the buffer as the first fastbin_finalize() left them
    refin,   \* record spec (ghost): fastbin_finalize() has been called again
    rewr,    \* record spec (ghost): the setter calls that set a variable-size field again
    twins,   \* record spec: two records given the same values, each with its buffer and the calls made
    vbuf,    \* variant spec: the bytes of the variant's buffer
    vlast,   \* variant spec (ghost): alternative and value of the last set<T>(v)
    vprev,   \* variant spec (ghost): alternative and value of the set<T>(v) before it
    ndebug,  \* variant spec: the program was compiled with NDEBUG (assert expands to nothing)
    vget,    \* variant spec: outcome of the last get<T>() since the last set
    akind,   \* array spec: the element type T of the StructArray<T>
    abuf,    \* array spec: the bytes of the array's buffer
    aelems,  \* array spec (ghost): the bytes of the elements appended, in order
    aview,   \* array spec: outcome of the last operator[] since the last append
    aclass,  \* array spec: the array class, StructArray or struct_array
    aover,   \* array spec (ghost): bytes an append wrote past the end of the buffer
    aiter,   \* array spec: the iteration under way: the iterator, end() and the views yielded
    aplan,   \* array spec: the elements of the caller's collection still to be appended
    cls,     \* ownership spec: the class of the views
    views,   \* ownership spec: slot -> the view object living there
    heap,    \* ownership spec: allocation -> "live" or "released"
    releases,        \* ownership spec (ghost): allocation -> times delete[] ran on it
    owned,           \* ownership spec (ghost): allocations handed to an owning view
    nonOwnerRelease, \* ownership spec (ghost): delete[] ran for a view whose flag was false
    lastMove,        \* ownership spec (ghost): the move that was the last step, if it was one
    aliases,         \* ownership spec (ghost): the slots holding a view a getter returned
    aliasDtor,       \* ownership spec (ghost): what the destructors of such views did: "none" ran, all "kept" the buffer, one "released" it
    ckind,   \* copy spec: the class of the object copied
    obuf,    \* copy spec: the bytes of the original's buffer
    cbuf,    \* copy spec: the bytes of the buffer copy() allocated
    cview,   \* copy spec: the view copy() returned
    csnap,   \* copy spec (ghost): the original's bytes when copy() ran
    ctouched, \* copy spec (ghost): which of "original", "copy" was written since
    pbuf,    \* parent spec: the bytes of the Parent's buffer
    pvals,   \* parent spec (ghost): what was last written to field1, child1, child2.field1, child2.field2, str
    c2state, \* parent spec (ghost): child2 is "unset", "dirty" (written, not finalized since) or "final"
    porder,  \* parent spec (ghost): every call so far kept the order the setters document
    pfin,    \* parent spec (ghost): fastbin_finalize() ran on the parent and nothing was written since
    skind,   \* array field spec: the element type of the parent's array field
    sin,     \* array field spec: the caller's elements and string
    sarr,    \* array field spec: the bytes of the array built in its own buffer
    sown,    \* array field spec: the bytes of the parent the array is copied into
    sinp,    \* array field spec: the bytes of the parent the array is built in
    sstep,   \* array field spec: how far the caller is with each of the two parents
    rd,      \* the last read operation called on a record or a variant, and what it returned
    fx       \* fixed-size record spec: the language, the memory, the fields set, the bytes written

recVars == <<kind, buf, setv, done, strict, early, fin, finbuf, refin, rewr, twins>>
varVars == <<vbuf, vlast, vprev, ndebug, vget>>
arrVars == <<akind, abuf, aelems, aview, aclass, aover, aiter, aplan>>
ownVars == <<cls, views, heap, releases, owned, nonOwnerRelease, lastMove, aliases, aliasDtor>>
cpVars == <<ckind, obuf, cbuf, cview, csnap, ctouched>>
parVars == <<pbuf, pvals, c2state, porder, pfin>>

vsVars == <<skind, sin, sarr, sown, sinp, sstep>>

vars == <<recVars, varVars, arrVars, ownVars, cpVars, parVars, vsVars, rd, fx>>

\* what the operations on one object leave alone: every other object
notRec == <<varVars, arrVars, ownVars, cpVars, parVars, vsVars, rd, fx>>
notVariant == <<recVars, arrVars, ownVars, cpVars, parVars, vsVars, rd, fx>>
notArray == <<recVars, varVars, ownVars, cpVars, parVars, vsVars, rd, fx>>
notOwnership == <<recVars, varVars, arrVars, cpVars, parVars, vsVars, rd, fx>>
notParent == <<recVars, varVars, arrVars, ownVars, cpVars, vsVars, rd, fx>>
notStructs == <<recVars, varVars, arrVars, ownVars, cpVars, parVars, rd, fx>>
\* what a read operation leaves alone besides the object it reads
notRead == <<arrVars, ownVars, cpVars, parVars, vsVars, fx>>
notFixed == <<recVars, varVars, arrVars, ownVars, cpVars, parVars, vsVars, rd>>
notCopy == <<recVars, varVars, arrVars, ownVars, parVars, vsVars, rd, fx>>

----------------------------------------------------------------------------
(* Bounds of the model *)

MaxStrLen == 9      \* longest string content, in bytes
MaxVecLen == 3      \* longest uint32 vector, in elements
MaxContentLen == 17 \* longest content of ChildVar's string field, in bytes
MaxEarly == 1       \* setter calls a caller makes before an earlier variable field is set
MaxPayload == 8     \* capacity of the variant's payload region, in bytes
MaxElements == 3    \* elements of 32 bytes the array's buffer has room for
MaxAllocs == 2      \* buffers the caller allocates
MaxViews == 3       \* view objects alive at a time
MaxReleases == 2    \* releases of one allocation that are told apart
Huge == 1048576     \* any size or offset >= Huge lies outside every buffer of the model

(* Program constants *)

WordSize == 8       \* sizeof(size_t)

NoVal == "unset"
\* what a getter returns whose length or offset is out of every buffer
Garbage == <<-1>>

----------------------------------------------------------------------------
(* Each specification follows one kind of object; the variables of the     *)
(* other kinds stay at the values below.                                   *)

\* nullptr
Null == 0

\* no object in the slot
NoObject == [alive |-> FALSE, buffer |-> Null, buffer_size |-> 0, owns_buffer |-> FALSE]

NoSet == [type |-> "none", value |-> <<>>]

NoGet == [type |-> "none", returned |-> FALSE, value |-> NoVal]

NoIter == [active |-> FALSE, index |-> 0, end |-> 0, yielded |-> <<>>]

NoView == [n |-> -1, thrown |-> FALSE, ptr |-> 0, buffer_size |-> 0, owns_buffer |-> FALSE]

NoRead == [op |-> "none", result |-> <<>>]

NoFixed == [lang |-> "none", mem |-> <<>>, done |-> {}, touched |-> {}, fin |-> FALSE, got |-> <<>>]

\* no variable-size field has been set twice
NoRewrite == [again |-> FALSE, before |-> <<>>, after |-> <<>>]

NoMove == [src |-> 0, dst |-> 0, was |-> NoObject]

NoCopy == [alive |-> FALSE, buffer_size |-> 0, owns_buffer |-> FALSE]

RecIdle ==
    /\ kind = "none" /\ buf = <<>> /\ setv = <<>> /\ done = {}
    /\ strict = TRUE /\ early = 0 /\ fin = FALSE
    /\ finbuf = <<>> /\ refin = FALSE /\ rewr = NoRewrite /\ twins = <<>>

VariantIdle ==
    /\ vbuf = <<>> /\ vlast = NoSet /\ vprev = NoSet
    /\ ndebug = FALSE /\ vget = NoGet

ArrayIdle ==
    /\ akind = "none" /\ abuf = <<>> /\ aelems = <<>> /\ aview = [view |-> NoView, before |-> <<>>]
    /\ aclass = "none" /\ aover = 0 /\ aiter = NoIter /\ aplan = <<>>

OwnershipIdle ==
    /\ cls = "none" /\ views = <<>> /\ heap = <<>> /\ releases = <<>>
    /\ owned = {} /\ nonOwnerRelease = FALSE /\ lastMove = NoMove
    /\ aliases = {} /\ aliasDtor = "none"

CopyIdle ==
    /\ ckind = "none" /\ obuf = <<>> /\ cbuf = <<>> /\ cview = NoCopy
    /\ csnap = <<>> /\ ctouched = {}

ParentIdle ==
    /\ pbuf = <<>> /\ pvals = <<>> /\ c2state = "none" /\ porder = TRUE /\ pfin = FALSE

StructsIdle ==
    /\ skind = "none" /\ sin = <<>> /\ sarr = <<>> /\ sown = <<>> /\ sinp = <<>>
    /\ sstep = <<>>

Idle(group) ==
    /\ rd = NoRead
    /\ group = "fixed" \/ fx = NoFixed
    /\ group = "structs" \/ StructsIdle
    /\ group = "parent" \/ ParentIdle
    /\ group = "record" \/ RecIdle
    /\ group = "variant" \/ VariantIdle
    /\ group = "array" \/ ArrayIdle
    /\ group = "ownership" \/ OwnershipIdle
    /\ group = "copy" \/ CopyIdle

----------------------------------------------------------------------------
(* Bytes and words *)

RECURSIVE Bytes(_, _)
\* the k low-order bytes of n, least significant first (little-endian store)
Bytes(n, k) == IF k = 0 THEN <<>> ELSE <<n % 256>> \o Bytes(n \div 256, k - 1)

RECURSIVE LE(_)
\* the number a little-endian byte sequence denotes; saturates at Huge
LE(bs) ==
    IF bs = <<>> THEN 0
    ELSE LET hi == LE(Tail(bs))
         IN  IF hi >= Huge \div 256 THEN Huge ELSE Head(bs) + 256 * hi

ZeroBuffer(n) == [i \in 0..(n - 1) |-> 0]

\* the byte at offset i; a byte outside the buffer reads as 0
ByteAt(b, i) == IF i \in DOMAIN b THEN b[i] ELSE 0

InBounds(b, off, len) == off >= 0 /\ off + len <= Cardinality(DOMAIN b)

\* n bytes starting at offset off
Slice(b, off, n) == [i \in 1..n |-> ByteAt(b, off + i - 1)]

\* memcpy / std::copy of bs to offset off
Store(b, off, bs) ==
    [i \in DOMAIN b |-> IF off <= i /\ i < off + Len(bs) THEN bs[i - off + 1] ELSE b[i]]

\* *reinterpret_cast<size_t*>(buffer + off) & 0x00FFFFFFFFFFFFFF
Low56(b, off) == LE(Slice(b, off, 7))

\* *reinterpret_cast<size_t*>(buffer + off) >> 56
Top8(b, off) == ByteAt(b, off + 7)

\* *reinterpret_cast<size_t*>(buffer + off), for a word whose top byte is part of the number
LoadSize(b, off) == LE(Slice(b, off, 8))

\* size_t subtraction: a negative difference wraps to a number >= Huge
SubSize(a, c) == IF a >= Huge \/ a < c THEN Huge ELSE a - c

\* a rounding that forgets the "+ 7"
AlignDown(n) == (n \div 8) * 8

\* (unaligned_size + 7) & ~7
AlignUp(n) == ((n + 7) \div 8) * 8

\* the padding shifted by 48 instead of 56
SizeHighShift48(aligned_size, aligned_diff) ==
    Bytes(aligned_size, 6) \o <<aligned_diff % 256, 0>>

\* aligned_size | (aligned_diff << 56), as the eight bytes stored
SizeHigh(aligned_size, aligned_diff) == Bytes(aligned_size, 7) \o <<aligned_diff % 256>>

----------------------------------------------------------------------------
(* Variable-length field codec, as every generated variable-size setter and *)
(* getter inlines it (StreamTrade.hpp:129-159, VectorOfUInt32.hpp:113-152)  *)

\* a setter that stores the unaligned size and reserves no padding
VarSet_unpadded(b, offset, content) ==
    Store(Store(b, offset, SizeHigh(8 + Len(content), 0)), offset + 8, content)

\* the setter: header word at offset, content right after it
VarSet(b, offset, content) ==
    LET unaligned_size == 8 + Len(content)
        aligned_size == AlignUp(unaligned_size)
        aligned_diff == aligned_size - unaligned_size
        aligned_size_high == SizeHigh(aligned_size, aligned_diff)
    IN  Store(Store(b, offset, aligned_size_high), offset + 8, content)

\* _size_aligned(): stored_size & 0x00FFFFFFFFFFFFFF
VarSizeAligned(b, offset) == Low56(b, offset)

\* _size_unaligned(): aligned_size - (stored_size >> 56)
VarSizeUnaligned(b, offset) == SubSize(Low56(b, offset), Top8(b, offset))

\* the getter: n_bytes = size_unaligned - 8 bytes starting at offset + 8
VarGet(b, offset) ==
    LET n_bytes == SubSize(VarSizeUnaligned(b, offset), 8)
    IN  IF n_bytes >= Huge \/ ~InBounds(b, offset + 8, n_bytes) THEN Garbage
        ELSE Slice(b, offset + 8, n_bytes)

\* bytes the setter writes: the header and the content (the padding is not written)
VarWritten(content) == 8 + Len(content)

----------------------------------------------------------------------------
(* StreamTrade (StreamTrade.hpp): server_time, recv_time, symbol, fill_time, *)
(* side, price, price_chg_dir, size, trade_id, block_trade                   *)

fastbin_server_time_offset == 8
fastbin_server_time_size == 8
fastbin_recv_time_offset == fastbin_server_time_offset + fastbin_server_time_size
fastbin_recv_time_size == 8
fastbin_symbol_offset == fastbin_recv_time_offset + fastbin_recv_time_size
fastbin_symbol_size(b) == VarSizeAligned(b, fastbin_symbol_offset)
\* an offset hardcoded as if symbol were a fixed-size field
fill_time_offset_hardcoded(b) == fastbin_symbol_offset + 8
fastbin_fill_time_offset(b) == fastbin_symbol_offset + fastbin_symbol_size(b)
fastbin_fill_time_size == 8
fastbin_side_offset(b) == fastbin_fill_time_offset(b) + fastbin_fill_time_size
fastbin_side_size == 8
fastbin_price_offset(b) == fastbin_side_offset(b) + fastbin_side_size
fastbin_price_size == 8
fastbin_price_chg_dir_offset(b) == fastbin_price_offset(b) + fastbin_price_size
fastbin_price_chg_dir_size == 8
fastbin_size_offset(b) == fastbin_price_chg_dir_offset(b) + fastbin_price_chg_dir_size
fastbin_size_size == 8
fastbin_trade_id_offset(b) == fastbin_size_offset(b) + fastbin_size_size
fastbin_trade_id_size(b) == VarSizeAligned(b, fastbin_trade_id_offset(b))
fastbin_block_trade_offset(b) == fastbin_trade_id_offset(b) + fastbin_trade_id_size(b)
fastbin_block_trade_size == 8

TradeFields ==
    <<"server_time", "recv_time", "symbol", "fill_time", "side", "price",
      "price_chg_dir", "size", "trade_id", "block_trade">>
TradeVarFields == {"symbol", "trade_id"}

\* where the accessor of field f reads and writes
TradeOffset(b, f) ==
    CASE f = "server_time" -> fastbin_server_time_offset
      [] f = "recv_time" -> fastbin_recv_time_offset
      [] f = "symbol" -> fastbin_symbol_offset
      [] f = "fill_time" -> fastbin_fill_time_offset(b)
      [] f = "side" -> fastbin_side_offset(b)
      [] f = "price" -> fastbin_price_offset(b)
      [] f = "price_chg_dir" -> fastbin_price_chg_dir_offset(b)
      [] f = "size" -> fastbin_size_offset(b)
      [] f = "trade_id" -> fastbin_trade_id_offset(b)
      [] f = "block_trade" -> fastbin_block_trade_offset(b)

\* sizeof of the C++ type a fixed-size accessor loads and stores:
\* int64 and double 8, TradeSide, TickDirection (uint8 enums) and bool 1
TradeWidth(f) == IF f \in {"side", "price_chg_dir", "block_trade"} THEN 1 ELSE 8

\* setter of a fixed-size field: *reinterpret_cast<T*>(buffer + offset) = value
TradeSetFixed(b, f, v) == Store(b, TradeOffset(b, f), Bytes(v, TradeWidth(f)))

\* setter of symbol / trade_id
TradeSetVar(b, f, s) == VarSet(b, TradeOffset(b, f), s)

\* the getters
TradeGet(b, f) ==
    IF f \in TradeVarFields THEN VarGet(b, TradeOffset(b, f))
    ELSE LE(Slice(b, TradeOffset(b, f), TradeWidth(f)))

\* StreamTrade::fastbin_compute_binary_size
Trade_fastbin_compute_binary_size(b) == fastbin_block_trade_offset(b) + fastbin_block_trade_size

\* fastbin_binary_size(): *reinterpret_cast<size_t*>(buffer)
fastbin_binary_size(b) == LoadSize(b, 0)

\* StreamTrade::fastbin_finalize
Trade_fastbin_finalize(b) == Store(b, 0, Bytes(Trade_fastbin_compute_binary_size(b), 8))

----------------------------------------------------------------------------
(* VectorOfUInt32 (VectorOfUInt32.hpp): values [span<uint32_t>], str       *)

\* a copy that takes one byte of each element
bytes_one_per_element(xs) == [i \in 1..Len(xs) |-> xs[i] % 256]

RECURSIVE U32Bytes(_)
\* reinterpret_cast<const std::byte*>(value.data()): the elements' bytes, 4 each
U32Bytes(xs) == IF xs = <<>> THEN <<>> ELSE Bytes(Head(xs), 4) \o U32Bytes(Tail(xs))

\* std::span<std::uint32_t>(ptr, count) read back element by element
U32Span(b, off, count) == [i \in 1..count |-> LE(Slice(b, off + 4 * (i - 1), 4))]

_values_offset == 8
_values_size_aligned(b) == VarSizeAligned(b, _values_offset)
_values_size_unaligned(b) == VarSizeUnaligned(b, _values_offset)
\* an offset that skips only the bytes values holds, not its padding
_str_offset_unpadded(b) == _values_offset + _values_size_unaligned(b)
_str_offset(b) == _values_offset + _values_size_aligned(b)
_str_size_aligned(b) == VarSizeAligned(b, _str_offset(b))
_str_size_unaligned(b) == VarSizeUnaligned(b, _str_offset(b))

\* void values(const std::span<std::uint32_t> value)
Vec_set_values(b, value) == VarSet(b, _values_offset, U32Bytes(value))

\* a getter that counts the elements from the aligned size
values_with_padding(b) ==
    U32Span(b, _values_offset + 8, SubSize(_values_size_aligned(b), 8) \div 4)

\* std::span<std::uint32_t> values() const: count = n_bytes / 4
Vec_values(b) ==
    LET n_bytes == SubSize(_values_size_unaligned(b), 8)
        count == n_bytes \div 4
    IN  IF n_bytes >= Huge \/ ~InBounds(b, _values_offset + 8, 4 * count) THEN Garbage
        ELSE U32Span(b, _values_offset + 8, count)

\* void str(const std::string_view value)
Vec_set_str(b, value) == VarSet(b, _str_offset(b), value)

\* std::string_view str() const
Vec_str(b) == VarGet(b, _str_offset(b))

\* a create that wraps the buffer as it is
create_without_memset(b) == b

\* VectorOfUInt32::create: std::memset(buffer, 0, buffer_size)
Vec_create(b) == [i \in DOMAIN b |-> 0]

\* VectorOfUInt32::fastbin_calc_binary_size() const
Vec_fastbin_calc_binary_size(b) == _str_offset(b) + _str_size_aligned(b)

\* a finalize that adds the computed size to the size already stored
Vec_finalize_accumulating(b) ==
    Store(b, 0, Bytes(fastbin_binary_size(b) + Vec_fastbin_calc_binary_size(b), 8))

\* VectorOfUInt32::fastbin_finalize
Vec_fastbin_finalize(b) == Store(b, 0, Bytes(Vec_fastbin_calc_binary_size(b), 8))

VecFields == <<"values", "str">>
VecVarFields == {"values", "str"}

VecOffset(b, f) == IF f = "values" THEN _values_offset ELSE _str_offset(b)
VecGet(b, f) == IF f = "values" THEN Vec_values(b) ELSE Vec_str(b)

----------------------------------------------------------------------------
(* ChildVar (ChildVar.hpp): field1 [int32_t] (fixed), field2 [string_view]  *)

_field1_offset == 8
_field1_size_aligned == 8
_field2_offset == 16
_field2_size_aligned(b) == VarSizeAligned(b, _field2_offset)
_field2_size_unaligned(b) == VarSizeUnaligned(b, _field2_offset)

\* void field1(const std::int32_t value): a 4-byte store
Child_set_field1(b, value) == Store(b, _field1_offset, Bytes(value, 4))
\* std::int32_t field1() const
Child_field1(b) == LE(Slice(b, _field1_offset, 4))
\* void field2(const std::string_view value)
Child_set_field2(b, value) == VarSet(b, _field2_offset, value)
\* std::string_view field2() const
Child_field2(b) == VarGet(b, _field2_offset)

\* ChildVar::fastbin_calc_binary_size
Child_fastbin_calc_binary_size(b) == _field2_offset + _field2_size_aligned(b)
\* ChildVar::fastbin_finalize
Child_fastbin_finalize(b) == Store(b, 0, Bytes(Child_fastbin_calc_binary_size(b), 8))

ChildFields == <<"field1", "field2">>
ChildVarFields == {"field2"}
ChildOffset(b, f) == IF f = "field1" THEN _field1_offset ELSE _field2_offset
ChildGet(b, f) == IF f = "field1" THEN Child_field1(b) ELSE Child_field2(b)

----------------------------------------------------------------------------
(* The record specification: a caller creates a StreamTrade or a           *)
(* VectorOfUInt32 over a zero-filled buffer, calls each setter at most     *)
(* once, in any order that keeps the variable-size setters in schema order *)
(* among themselves, and finalizes.                                        *)

Kinds == {"StreamTrade", "VectorOfUInt32"}

Fields(k) ==
    CASE k = "StreamTrade" -> TradeFields
      [] k = "VectorOfUInt32" -> VecFields
      [] k = "ChildVar" -> ChildFields
VarFields(k) ==
    CASE k = "StreamTrade" -> TradeVarFields
      [] k = "VectorOfUInt32" -> VecVarFields
      [] k = "ChildVar" -> ChildVarFields
FieldSet(k) == {Fields(k)[i] : i \in 1..Len(Fields(k))}
FieldIndex(k, f) == CHOOSE i \in 1..Len(Fields(k)) : Fields(k)[i] = f
FirstVarIndex(k) ==
    CHOOSE i \in 1..Len(Fields(k)) :
        /\ Fields(k)[i] \in VarFields(k)
        /\ \A j \in 1..(i - 1) : Fields(k)[j] \notin VarFields(k)

Offset(k, b, f) ==
    CASE k = "StreamTrade" -> TradeOffset(b, f)
      [] k = "VectorOfUInt32" -> VecOffset(b, f)
      [] k = "ChildVar" -> ChildOffset(b, f)
Get(k, b, f) ==
    CASE k = "StreamTrade" -> TradeGet(b, f)
      [] k = "VectorOfUInt32" -> VecGet(b, f)
      [] k = "ChildVar" -> ChildGet(b, f)
CalcBinarySize(k, b) ==
    CASE k = "StreamTrade" -> Trade_fastbin_compute_binary_size(b)
      [] k = "VectorOfUInt32" -> Vec_fastbin_calc_binary_size(b)
      [] k = "ChildVar" -> Child_fastbin_calc_binary_size(b)
Finalized(k, b) ==
    CASE k = "StreamTrade" -> Trade_fastbin_finalize(b)
      [] k = "VectorOfUInt32" -> Vec_fastbin_finalize(b)
      [] k = "ChildVar" -> Child_fastbin_finalize(b)

\* the inputs of the setters
Str(c, n) == [i \in 1..n |-> c + i]
\* string lengths on both sides of the 8-byte boundaries
Strings == {Str(64, n) : n \in {0, 1, MaxStrLen - 1, MaxStrLen}}
EdgeStrings == {Str(96, n) : n \in {0, MaxStrLen - 1, MaxStrLen}}
Vectors == {[i \in 1..n |-> 1000 * i + 7] : n \in 0..MaxVecLen}
FixedVals(f) ==
    CASE f = "server_time" -> {300}
      [] f = "recv_time" -> {2}
      [] f = "fill_time" -> {3, 8}
      [] f = "side" -> {1}
      [] f = "price" -> {5}
      [] f = "price_chg_dir" -> {4}
      [] f = "size" -> {6}
      [] f = "block_trade" -> {1}

\* a buffer large enough for every record of the model
RecBufSize == 8 + 8 * 8 + 2 * AlignUp(8 + MaxStrLen) + AlignUp(8 + 4 * MaxVecLen)

\* schema order from the first variable-size field onward, nothing skipped
InSchemaOrder(k, f, d) ==
    LET i == FieldIndex(k, f)
    IN  i >= FirstVarIndex(k) =>
            /\ \A j \in FirstVarIndex(k)..(i - 1) : Fields(k)[j] \in d
            /\ \A j \in (i + 1)..Len(Fields(k)) : Fields(k)[j] \notin d

\* every variable-size field before f has been set
AfterEarlierVar(k, f, d) ==
    \A j \in 1..(FieldIndex(k, f) - 1) : Fields(k)[j] \in VarFields(k) => Fields(k)[j] \in d

\* the variable-size setters are called in schema order among themselves
VarOrderKept(k, f, d) ==
    f \in VarFields(k) =>
        \A j \in 1..Len(Fields(k)) :
            Fields(k)[j] \in VarFields(k) \cap d => j < FieldIndex(k, f)

RecInit ==
    /\ kind \in Kinds
    /\ buf = ZeroBuffer(RecBufSize)
    /\ setv = [f \in FieldSet(kind) |-> NoVal]
    /\ done = {}
    /\ strict = TRUE
    /\ early = 0
    /\ fin = FALSE
    /\ finbuf = <<>>
    /\ refin = FALSE
    /\ rewr = NoRewrite
    /\ twins = <<>>
    /\ Idle("record")

\* the bookkeeping common to every setter call
Called(f, v, nb, len) ==
    /\ ~fin
    /\ f \notin done
    /\ VarOrderKept(kind, f, done)
    /\ InBounds(buf, Offset(kind, buf, f), len)
    /\ buf' = nb
    /\ setv' = [setv EXCEPT ![f] = v]
    /\ done' = done \cup {f}
    /\ strict' = (strict /\ InSchemaOrder(kind, f, done))
    /\ early' = IF AfterEarlierVar(kind, f, done) THEN early ELSE early + 1
    /\ early' <= MaxEarly
    /\ UNCHANGED <<kind, fin, finbuf, refin, rewr, twins>>
    /\ UNCHANGED notRec

SetFixed(f) ==
    /\ kind = "StreamTrade"
    /\ \E v \in FixedVals(f) : Called(f, v, TradeSetFixed(buf, f, v), TradeWidth(f))

SetServerTime == SetFixed("server_time")
SetRecvTime == SetFixed("recv_time")
SetFillTime == SetFixed("fill_time")
SetSide == SetFixed("side")
SetPrice == SetFixed("price")
SetPriceChgDir == SetFixed("price_chg_dir")
SetSize == SetFixed("size")
SetBlockTrade == SetFixed("block_trade")

SetSymbol ==
    /\ kind = "StreamTrade"
    /\ \E s \in Strings : Called("symbol", s, TradeSetVar(buf, "symbol", s), VarWritten(s))

SetTradeId ==
    /\ kind = "StreamTrade"
    /\ \E s \in EdgeStrings : Called("trade_id", s, TradeSetVar(buf, "trade_id", s), VarWritten(s))

SetValues ==
    /\ kind = "VectorOfUInt32"
    /\ \E xs \in Vectors : Called("values", xs, Vec_set_values(buf, xs), 8 + 4 * Len(xs))

SetStr ==
    /\ kind = "VectorOfUInt32"
    /\ \E s \in Strings : Called("str", s, Vec_set_str(buf, s), VarWritten(s))

Finalize ==
    /\ kind # "none"
    /\ ~fin
    /\ done = FieldSet(kind)
    /\ buf' = Finalized(kind, buf)
    /\ fin' = TRUE
    /\ finbuf' = buf'
    /\ UNCHANGED <<kind, setv, done, strict, early, refin, rewr, twins>>
    /\ UNCHANGED notRec

\* fastbin_finalize() once more, no setter called in between
FinalizeAgain ==
    /\ fin
    /\ buf' = Finalized(kind, buf)
    /\ refin' = TRUE
    /\ UNCHANGED <<kind, setv, done, strict, early, fin, finbuf, rewr, twins>>
    /\ UNCHANGED notRec

\* a VectorOfUInt32 created over a zero-filled buffer, for a caller who
\* sets a variable-size field more than once before it sets the next one
ResetInit ==
    /\ kind = "VectorOfUInt32"
    /\ buf = ZeroBuffer(RecBufSize)
    /\ setv = [f \in FieldSet(kind) |-> NoVal]
    /\ done = {}
    /\ strict = TRUE
    /\ early = 0
    /\ fin = FALSE
    /\ finbuf = <<>>
    /\ refin = FALSE
    /\ rewr = NoRewrite
    /\ twins = <<>>
    /\ Idle("record")

\* a vector whose first two elements read as the header word of an empty field
HeaderLike == <<8, 0, 5>>
ResetVectors == Vectors \cup {HeaderLike}

\* v.values(xs), the first time or again, while str is not set
SetValuesAgain ==
    \E xs \in ResetVectors :
        /\ kind = "VectorOfUInt32"
        /\ ~fin
        /\ "str" \notin done
        /\ InBounds(buf, _values_offset, 8 + 4 * Len(xs))
        /\ buf' = Vec_set_values(buf, xs)
        /\ setv' = [setv EXCEPT !["values"] = xs]
        /\ done' = done \cup {"values"}
        /\ rewr' = [rewr EXCEPT !.again = @ \/ "values" \in done]
        /\ UNCHANGED <<kind, strict, early, fin, finbuf, refin, twins>>
        /\ UNCHANGED notRec

\* v.str(s), the first time or again: str is the last field, so no later
\* field's offset goes stale
SetStrAgain ==
    \E s \in Strings :
        /\ kind = "VectorOfUInt32"
        /\ ~fin
        /\ "values" \in done
        /\ InBounds(buf, _str_offset(buf), VarWritten(s))
        /\ buf' = Vec_set_str(buf, s)
        /\ setv' = [setv EXCEPT !["str"] = s]
        /\ done' = done \cup {"str"}
        /\ rewr' = [rewr EXCEPT !.again = @ \/ "str" \in done]
        /\ UNCHANGED <<kind, strict, early, fin, finbuf, refin, twins>>
        /\ UNCHANGED notRec

\* v.values(xs) again, after the later field str was written; the one such
\* call of a run is followed
OverwriteValues ==
    \E xs \in ResetVectors :
        /\ kind = "VectorOfUInt32"
        /\ ~fin
        /\ rewr.before = <<>>
        /\ "str" \in done
        /\ InBounds(buf, _values_offset, 8 + 4 * Len(xs))
        /\ buf' = Vec_set_values(buf, xs)
        /\ setv' = [setv EXCEPT !["values"] = xs]
        /\ rewr' = [rewr EXCEPT !.before = buf, !.after = buf']
        /\ UNCHANGED <<kind, done, strict, early, fin, finbuf, refin, twins>>
        /\ UNCHANGED notRec

\* values was set again while str was written: the aligned size of values
\* stayed the same
SameAlignedSize == _values_size_aligned(rewr.after) = _values_size_aligned(rewr.before)

\* a field set again while no later field was written, the later fields set
\* afterwards and the record finalized: the getters return the latest values
\* and fastbin_binary_size() = fastbin_calc_binary_size()
ResetBeforeLaterIsSafe ==
    fin /\ rewr.before = <<>> =>
        /\ Vec_values(buf) = setv["values"]
        /\ Vec_str(buf) = setv["str"]
        /\ fastbin_binary_size(buf) = Vec_fastbin_calc_binary_size(buf)

\* C25 as stated: setting a variable-size field again leaves the getter
\* result of the later, written field unchanged exactly when the new content
\* has the aligned size of the old; with no later field written, setting it
\* again is safe.
C25_LaterGettersUnchangedIffSameSize ==
    /\ rewr.before # <<>> =>
          (Vec_str(rewr.after) = Vec_str(rewr.before) <=> SameAlignedSize)
    /\ ResetBeforeLaterIsSafe

\* C25, amended: setting a variable-size field again with content of the
\* same aligned size leaves the offset and the getter result of the later,
\* written field unchanged; with a different aligned size the later field's
\* offset moves by the difference, away from the bytes its setter wrote (what
\* its getter then returns depends on the bytes found there).  With no later
\* field written, setting it again is safe.
C25_SameSizeKeepsLaterGetters ==
    /\ rewr.before # <<>> =>
          /\ Vec_values(rewr.after) = setv["values"]
          /\ SameAlignedSize =>
                /\ _str_offset(rewr.after) = _str_offset(rewr.before)
                /\ Vec_str(rewr.after) = Vec_str(rewr.before)
          /\ ~SameAlignedSize =>
                _str_offset(rewr.after) - _str_offset(rewr.before) =
                    _values_size_aligned(rewr.after) - _values_size_aligned(rewr.before)
    /\ ResetBeforeLaterIsSafe

C25_Witness ==
    /\ fin /\ rewr.before # <<>> /\ rewr.again
    /\ SameAlignedSize
    /\ Vec_values(rewr.after) # Vec_values(rewr.before)
    /\ Len(setv["str"]) = MaxStrLen
    /\ Vec_str(buf) = setv["str"]

----------------------------------------------------------------------------
(* Two VectorOfUInt32 records given the same values: each over a buffer of *)
(* its own length that holds whatever the memory held before, each made    *)
(* with create, set in schema order and finalized.                         *)

TwinMinSize == 8 + AlignUp(8 + 4 * MaxVecLen) + AlignUp(8 + MaxStrLen)
TwinSizes == {TwinMinSize, TwinMinSize + 8}
\* memory as allocated: zeroed, all ones, or a pattern
Memory(n) == {[i \in 0..(n - 1) |-> 0], [i \in 0..(n - 1) |-> 255],
              [i \in 0..(n - 1) |-> (i % 7) + 1]}
RawBuffers == UNION {Memory(n) : n \in TwinSizes}
Raw(b) == [buf |-> b, prior |-> b, step |-> "raw"]

TwinsInit ==
    /\ kind = "VectorOfUInt32"
    /\ \E v \in Vectors, s \in Strings, b1 \in RawBuffers, b2 \in RawBuffers :
          twins = [values |-> v, str |-> s, a |-> Raw(b1), b |-> Raw(b2)]
    /\ buf = <<>> /\ setv = <<>> /\ done = {}
    /\ strict = TRUE /\ early = 0 /\ fin = FALSE
    /\ finbuf = <<>> /\ refin = FALSE /\ rewr = NoRewrite
    /\ Idle("record")

\* one call on record r: from step `from` to step `to`, the buffer becoming nb
TwinCall(r, from, to, nb) ==
    /\ twins[r].step = from
    /\ twins' = [twins EXCEPT ![r].buf = nb, ![r].step = to]
    /\ UNCHANGED <<kind, buf, setv, done, strict, early, fin, finbuf, refin, rewr>>
    /\ UNCHANGED notRec

TwinCreate == \E r \in {"a", "b"} : TwinCall(r, "raw", "created", Vec_create(twins[r].buf))
TwinSetValues ==
    \E r \in {"a", "b"} :
        TwinCall(r, "created", "values", Vec_set_values(twins[r].buf, twins.values))
TwinSetStr ==
    \E r \in {"a", "b"} : TwinCall(r, "values", "str", Vec_set_str(twins[r].buf, twins.str))
TwinFinalize ==
    \E r \in {"a", "b"} : TwinCall(r, "str", "fin", Vec_fastbin_finalize(twins[r].buf))

FinalizedRegion(b) == Slice(b, 0, fastbin_binary_size(b))

\* C28: two records of the same type, each made with create and given the
\* same field values in schema order, have byte-identical finalized regions
\* [0, fastbin_binary_size()), whatever their buffers held before create and
\* whatever the buffers' lengths.
C28_FinalizedBytesDependOnValuesOnly ==
    twins.a.step = "fin" /\ twins.b.step = "fin" =>
        /\ fastbin_binary_size(twins.a.buf) = fastbin_binary_size(twins.b.buf)
        /\ FinalizedRegion(twins.a.buf) = FinalizedRegion(twins.b.buf)

C28_Witness ==
    /\ twins.a.step = "fin" /\ twins.b.step = "fin"
    /\ Cardinality(DOMAIN twins.a.buf) # Cardinality(DOMAIN twins.b.buf)
    /\ twins.a.prior[0] = 255 /\ twins.b.prior[0] = 1
    /\ Len(twins.str) = 1 /\ Len(twins.values) = 1
    /\ FinalizedRegion(twins.a.buf) = FinalizedRegion(twins.b.buf)
    /\ FinalizedRegion(twins.a.buf) # Slice(twins.a.prior, 0, fastbin_binary_size(twins.a.buf))

----------------------------------------------------------------------------
(* Claims about records *)

IsFixed(k, f) == f \in FieldSet(k) \ VarFields(k)

\* the setter of field f, whatever its category
SetField(k, b, f, v) ==
    CASE k = "StreamTrade" ->
            IF f \in TradeVarFields THEN TradeSetVar(b, f, v) ELSE TradeSetFixed(b, f, v)
      [] k = "VectorOfUInt32" ->
            IF f = "values" THEN Vec_set_values(b, v) ELSE Vec_set_str(b, v)
      [] k = "ChildVar" ->
            IF f = "field1" THEN Child_set_field1(b, v) ELSE Child_set_field2(b, v)

RECURSIVE SetFrom(_, _, _, _)
\* the setters of fields i.. called in schema order on b
SetFrom(k, b, v, i) ==
    IF i > Len(Fields(k)) THEN b
    ELSE SetFrom(k, SetField(k, b, Fields(k)[i], v[Fields(k)[i]]), v, i + 1)

\* the bytes a caller gets who sets the values v in schema order and finalizes
SchemaOrderBytes(k, v) == Finalized(k, SetFrom(k, ZeroBuffer(RecBufSize), v, 1))

\* the finalized region [0, fastbin_binary_size())
Region(b) == Slice(b, 0, fastbin_binary_size(b))

GettersReturnSetValues(fs) == \A f \in fs : Get(kind, buf, f) = setv[f]

\* C1: a record created over a zero-filled, large enough buffer, with its fields
\* set in schema order from the first variable-size field onward and then
\* finalized, has fastbin_binary_size() = fastbin_calc_binary_size(), and every
\* getter returns the value passed to the setter.
C1_RoundTrip ==
    (fin /\ strict) =>
        /\ fastbin_binary_size(buf) = CalcBinarySize(kind, buf)
        /\ GettersReturnSetValues(FieldSet(kind))

C1_Witness ==
    /\ fin /\ strict /\ kind = "StreamTrade"
    /\ Len(setv["symbol"]) = MaxStrLen
    /\ Len(setv["trade_id"]) = MaxStrLen - 1
    /\ fastbin_binary_size(buf) = 8 + 8 * 8 + 24 + 16

\* C2 as stated: the fixed-size fields may be set in any order (the
\* variable-size ones in schema order), and each fixed-size getter returns the
\* value set and the finalized bytes are those of schema order.
C2_AnyOrderOfFixedFields ==
    fin =>
        /\ GettersReturnSetValues({f \in FieldSet(kind) : IsFixed(kind, f)})
        /\ Region(buf) = Region(SchemaOrderBytes(kind, setv))

\* C2 amended: a fixed-size field may be set at any time after every
\* variable-size field that precedes it in the schema has been set; then every
\* getter of a field already set returns the value set, and the finalized
\* bytes are those of schema order.
C2_FixedAfterEarlierVariable ==
    early = 0 =>
        /\ GettersReturnSetValues(done)
        /\ fin => Region(buf) = Region(SchemaOrderBytes(kind, setv))

C2_Witness ==
    /\ fin /\ early = 0 /\ ~strict /\ kind = "StreamTrade"
    /\ Len(setv["symbol"]) = MaxStrLen

\* fastbin_<field>_size(): 8 for a fixed-size field, the aligned size in the
\* header for a variable-size field
FieldSize(k, b, f) ==
    IF f \in VarFields(k) THEN VarSizeAligned(b, Offset(k, b, f)) ELSE 8

\* the bytes of content a setter was given
ContentBytes(f, v) == IF f = "values" THEN 4 * Len(v) ELSE Len(v)

\* C16: in every state of a record, the first field is at offset 8 and every
\* later field at the offset of the field before it plus that field's size;
\* after finalize the offset of the last field plus its size is
\* fastbin_binary_size().  The size of a variable-size field that was set is
\* 8 + its content length rounded up to a multiple of 8.
C16_OffsetChain ==
    LET fs == Fields(kind)
    IN  /\ Offset(kind, buf, fs[1]) = 8
        /\ \A i \in 2..Len(fs) :
              Offset(kind, buf, fs[i]) =
                  Offset(kind, buf, fs[i - 1]) + FieldSize(kind, buf, fs[i - 1])
        /\ strict => \A f \in done \cap VarFields(kind) :
              FieldSize(kind, buf, f) = AlignUp(8 + ContentBytes(f, setv[f]))
        /\ fin => Offset(kind, buf, fs[Len(fs)]) + FieldSize(kind, buf, fs[Len(fs)])
                      = fastbin_binary_size(buf)

C16_Witness ==
    /\ fin /\ kind = "VectorOfUInt32"
    /\ Len(setv["values"]) = MaxVecLen
    /\ Len(setv["str"]) = MaxStrLen
    /\ _str_offset(buf) = 8 + AlignUp(8 + 4 * MaxVecLen)
    /\ fastbin_binary_size(buf) = _str_offset(buf) + AlignUp(8 + MaxStrLen)

----------------------------------------------------------------------------
(* The static size calculations: the size a record will have, computed     *)
(* from the intended contents of its variable-size fields.                 *)

\* static _values_calc_size_aligned: (8 + value.size() * 4 + 7) & ~7
_values_calc_size_aligned(value) == AlignUp(8 + Len(value) * 4)

\* a size calculation that forgets to round up
str_calc_size_unaligned(value) == 8 + Len(value) * 1

\* static _str_calc_size_aligned: (8 + value.size() * 1 + 7) & ~7
_str_calc_size_aligned(value) == AlignUp(8 + Len(value) * 1)

\* static VectorOfUInt32::fastbin_calc_binary_size(values, str)
Vec_static_calc_binary_size(values, str) ==
    8 + _values_calc_size_aligned(values) + _str_calc_size_aligned(str)

\* fastbin_calc_binary_size(::Type{StreamTrade}, symbol, trade_id); both
\* _symbol_calc_size_aligned and _trade_id_calc_size_aligned compute
\* (8 + length(value) + 7) & ~7
Trade_static_calc_binary_size(symbol, trade_id) ==
    72 + _str_calc_size_aligned(symbol) + _str_calc_size_aligned(trade_id)

StaticCalc(k, contents) ==
    CASE k = "StreamTrade" ->
           Trade_static_calc_binary_size(contents["symbol"], contents["trade_id"])
      [] k = "VectorOfUInt32" ->
           Vec_static_calc_binary_size(contents["values"], contents["str"])

\* ChildVar::create over a zeroed buffer, field1(0), field2("var_text"), fastbin_finalize()
ChildVar_var_text ==
    Child_fastbin_finalize(Child_set_field2(Child_set_field1(ZeroBuffer(32), 0), Str(64, 8)))

\* C22: a record whose variable-size fields were set in schema order and
\* which was then finalized has fastbin_binary_size() equal to the static
\* size calculation applied to the contents that were set; a ChildVar
\* holding an 8-byte string has size 32, a VectorOfUInt32 holding an empty
\* vector and an empty string has size 24.
C22_StaticCalcMatchesFinalized ==
    /\ fin /\ strict => fastbin_binary_size(buf) = StaticCalc(kind, setv)
    /\ fin /\ kind = "VectorOfUInt32" /\ setv["values"] = <<>> /\ setv["str"] = <<>>
          => fastbin_binary_size(buf) = 24 /\ StaticCalc(kind, setv) = 24
    /\ fastbin_binary_size(ChildVar_var_text) = 32

C22_Witness ==
    /\ fin /\ strict /\ kind = "VectorOfUInt32"
    /\ Len(setv["values"]) = MaxVecLen /\ Len(setv["str"]) = 1
    /\ fastbin_binary_size(buf) = 8 + AlignUp(8 + 4 * MaxVecLen) + 16

----------------------------------------------------------------------------
(* A record with the schema (a: int32, s: string, v: vector<int32>).  No   *)
(* generated class of this schema is among the sources; a and s are laid   *)
(* out as ChildVar lays out field1 and field2, and v follows s with the    *)
(* accessors VectorOfUInt32 has for values, at the offset where s ends.    *)

Example_a_offset == _field1_offset
Example_s_offset == _field2_offset
Example_s_size_aligned(b) == _field2_size_aligned(b)
Example_v_offset(b) == Example_s_offset + Example_s_size_aligned(b)
Example_v_size_aligned(b) == VarSizeAligned(b, Example_v_offset(b))

Example_set_a(b, value) == Child_set_field1(b, value)
Example_set_s(b, value) == Child_set_field2(b, value)
\* as void values(const std::span<...> value), 4 bytes an element
Example_set_v(b, value) == VarSet(b, Example_v_offset(b), U32Bytes(value))

Example_a(b) == Child_field1(b)
Example_s(b) == Child_field2(b)
Example_v(b) ==
    LET n_bytes == SubSize(VarSizeUnaligned(b, Example_v_offset(b)), 8)
    IN  U32Span(b, Example_v_offset(b) + 8, n_bytes \div 4)

Example_fastbin_calc_binary_size(b) == Example_v_offset(b) + Example_v_size_aligned(b)
Example_fastbin_finalize(b) == Store(b, 0, Bytes(Example_fastbin_calc_binary_size(b), 8))

ExampleBufSize == 16 + AlignUp(8 + MaxStrLen) + AlignUp(8 + 4 * MaxVecLen)
hi == <<104, 105>>
ExampleStrings == {<<>>, hi, Str(64, MaxStrLen - 1), Str(64, MaxStrLen)}
ExampleVectors == {[i \in 1..n |-> i] : n \in 0..MaxVecLen}

\* the caller's values, and a record created over a zeroed buffer
ExampleInit ==
    /\ kind = "Example"
    /\ buf = ZeroBuffer(ExampleBufSize)
    /\ setv \in [a : {123, 70000}, s : ExampleStrings, v : ExampleVectors]
    /\ done = {}
    /\ strict = TRUE
    /\ early = 0
    /\ fin = FALSE
    /\ finbuf = <<>>
    /\ refin = FALSE
    /\ rewr = NoRewrite
    /\ twins = <<>>
    /\ Idle("record")

ExampleSet(f, before, nb) ==
    /\ ~fin
    /\ done = before
    /\ buf' = nb
    /\ done' = done \cup {f}
    /\ UNCHANGED <<kind, setv, strict, early, fin, finbuf, refin, rewr, twins>>
    /\ UNCHANGED notRec

ExampleSetA == ExampleSet("a", {}, Example_set_a(buf, setv.a))
ExampleSetS == ExampleSet("s", {"a"}, Example_set_s(buf, setv.s))
ExampleSetV == ExampleSet("v", {"a", "s"}, Example_set_v(buf, setv.v))

ExampleFinalize ==
    /\ ~fin
    /\ done = {"a", "s", "v"}
    /\ buf' = Example_fastbin_finalize(buf)
    /\ fin' = TRUE
    /\ finbuf' = buf'
    /\ UNCHANGED <<kind, setv, done, strict, early, refin, rewr, twins>>
    /\ UNCHANGED notRec

\* C23: the record (a: int32, s: string, v: vector<int32>) set to a = 123,
\* s = "hi", v = [1, 2, 3] and finalized has fastbin_binary_size() = 56:
\* 8 bytes of size header, 8 for a, 16 for s (aligned size 16, 6 pad bytes)
\* and 24 for v (aligned size 24, 4 pad bytes).
C23_ConcreteScenario ==
    fin /\ setv.a = 123 /\ setv.s = hi /\ setv.v = <<1, 2, 3>> =>
        /\ fastbin_binary_size(buf) = 56
        /\ Example_a_offset = 8 /\ Example_s_offset = 8 + 8
        /\ Example_s_size_aligned(buf) = 16 /\ Top8(buf, Example_s_offset) = 6
        /\ Example_v_offset(buf) = 32
        /\ Example_v_size_aligned(buf) = 24 /\ Top8(buf, Example_v_offset(buf)) = 4
        /\ Example_a(buf) = 123 /\ Example_s(buf) = hi /\ Example_v(buf) = <<1, 2, 3>>

C23_Witness ==
    /\ fin /\ setv.a = 123 /\ setv.s = hi /\ setv.v = <<1, 2, 3>>
    /\ fastbin_binary_size(buf) = 56

----------------------------------------------------------------------------
(* The ChildVar specification: one ChildVar over a zero-filled buffer, its *)
(* string field set to content of every length up to MaxContentLen.        *)

ChildBufSize == 16 + AlignUp(8 + MaxContentLen)
Contents == {Str(c, n) : c \in {64, 96, 128}, n \in 0..MaxContentLen}

ChildInit ==
    /\ kind = "ChildVar"
    /\ buf = ZeroBuffer(ChildBufSize)
    /\ setv = [f \in FieldSet(kind) |-> NoVal]
    /\ done = {}
    /\ strict = TRUE
    /\ early = 0
    /\ fin = FALSE
    /\ finbuf = <<>>
    /\ refin = FALSE
    /\ rewr = NoRewrite
    /\ twins = <<>>
    /\ Idle("record")

SetField1 ==
    /\ kind = "ChildVar"
    /\ \E v \in {123, 70000} : Called("field1", v, Child_set_field1(buf, v), 4)

SetField2 ==
    /\ kind = "ChildVar"
    /\ \E s \in Contents : Called("field2", s, Child_set_field2(buf, s), VarWritten(s))

\* C3: for every content length L the setter stores a header whose low 56 bits A
\* are 8+L rounded up to the next multiple of 8, whose top byte p is the padding
\* A - (8+L), between 0 and 7 (so its five high bits are zero), and decoding
\* gives the content length A - p - 8 = L.
C3_HeaderRecoversLength ==
    "field2" \in done =>
        LET L == Len(setv["field2"])
            A == Low56(buf, _field2_offset)
            p == Top8(buf, _field2_offset)
        IN  /\ A % 8 = 0 /\ 8 + L <= A /\ A < 8 + L + 8
            /\ A = _field2_size_aligned(buf)
            /\ 0 <= p /\ p <= 7
            /\ p = A - (8 + L)
            /\ SubSize(_field2_size_unaligned(buf), 8) = L
            /\ Len(Child_field2(buf)) = L

C3_Witness ==
    /\ "field2" \in done
    /\ Len(setv["field2"]) = 0
    /\ Low56(buf, _field2_offset) = 8
    /\ Top8(buf, _field2_offset) = 0
    /\ Child_field2(buf) = <<>>

----------------------------------------------------------------------------
(* Variant (_Variant.hpp, class Variant<Types...>): one header word holding *)
(* the total size in its upper seven bytes and the active index in its     *)
(* lowest byte, followed by the payload.                                   *)

\* Variant<std::int32_t, std::string_view, std::span<std::uint32_t>>
Types == <<"int32_t", "string_view", "span_uint32_t">>
TypeSet == {Types[i] : i \in 1..Len(Types)}

\* type_index<T>(): the 0-based position of T in Types...
type_index(T) == (CHOOSE i \in 1..Len(Types) : Types[i] = T) - 1

\* void index(size_t index): clear the lowest byte, or the index in
Variant_set_index(b, index) == Store(b, 0, <<index % 256>>)

\* size_t size() const: size_and_index >> 8
Variant_size(b) == LE(Slice(b, 1, 7))

\* size_t data_size() const: size() - sizeof(size_t)
Variant_data_size(b) == SubSize(Variant_size(b), WordSize)

\* void size(size_t size): keep the lowest byte, or (size << 8) in
Variant_set_size(b, size) == Store(b, 1, Bytes(size, 7))

\* bufferptr(): buffer + sizeof(size_t)
Variant_bufferptr == 8

\* Variant::create: memset 0, then size(sizeof(size_t))
Variant_create(buffer_size) == Variant_set_size(ZeroBuffer(buffer_size), WordSize)

\* size_t index() const: size_and_index & 0xFF
Variant_index(b) == ByteAt(b, 0)

\* bool empty() const
Variant_empty(b) == Variant_data_size(b) = 0

\* bool holds_alternative<T>() const
holds_alternative(b, T) == ~Variant_empty(b) /\ Variant_index(b) = type_index(T)

\* the bytes set<T> copies: &value for sizeof(T), value.data() for value.size()
\* or value.size_bytes()
Payload(T, value) ==
    CASE T = "int32_t" -> Bytes(value, 4)
      [] T = "string_view" -> value
      [] T = "span_uint32_t" -> U32Bytes(value)

\* the assert of set<T>: buffer_size >= total_size
Variant_set_fits(b, T, value) ==
    Cardinality(DOMAIN b) >= WordSize + Len(Payload(T, value))

\* void set<T>(const T& value): index, size, memcpy
Variant_set(b, T, value) ==
    LET total_size == WordSize + Len(Payload(T, value))
    IN  Store(Variant_set_size(Variant_set_index(b, type_index(T)), total_size),
              Variant_bufferptr, Payload(T, value))

\* asserts that only check that some alternative is held
get_asserts_nonempty(b, T) == ~Variant_empty(b)

\* the two asserts of get<T>: !empty() and holds_alternative<T>()
Variant_get_asserts(b, T) == ~Variant_empty(b) /\ holds_alternative(b, T)

\* what get<T> returns when its asserts pass or are compiled out
Variant_get(b, T) ==
    CASE T = "int32_t" -> LE(Slice(b, Variant_bufferptr, 4))
      [] T = "string_view" ->
            IF Variant_data_size(b) >= Huge THEN Garbage
            ELSE Slice(b, Variant_bufferptr, Variant_data_size(b))
      [] T = "span_uint32_t" ->
            IF Variant_data_size(b) >= Huge THEN Garbage
            ELSE U32Span(b, Variant_bufferptr, Variant_data_size(b) \div 4)

\* Variant::fastbin_binary_size
Variant_fastbin_binary_size(b) == Variant_size(b)

----------------------------------------------------------------------------
(* The variant specification: a variant created over a buffer of           *)
(* VariantBufSize bytes, then set<T>(v) any number of times.               *)

VariantBufSize == WordSize + MaxPayload

\* the inputs of set<T>; the longest string does not fit the buffer
VariantInts == {42, 70000}
VariantStrings == {Str(64, n) : n \in {0, 1, 5, MaxPayload, MaxPayload + 1}}
VariantSpans == {[i \in 1..n |-> 1000 * i + 7] : n \in 0..(MaxPayload \div 4)}

VariantInit ==
    /\ vbuf = Variant_create(VariantBufSize)
    /\ vlast = NoSet
    /\ vprev = NoSet
    /\ ndebug \in BOOLEAN
    /\ vget = NoGet
    /\ Idle("variant")

\* a failed assert calls abort(): the program runs no further
Aborted == vget.type # "none" /\ ~vget.returned

\* the caller keeps set's contract (the value fits the buffer) in either build
VariantSet(T, value) ==
    /\ vbuf # <<>>
    /\ ~Aborted
    /\ Variant_set_fits(vbuf, T, value)
    /\ vbuf' = Variant_set(vbuf, T, value)
    /\ vprev' = vlast
    /\ vlast' = [type |-> T, value |-> value]
    /\ vget' = NoGet
    /\ UNCHANGED ndebug
    /\ UNCHANGED notVariant

SetInt32 == \E v \in VariantInts : VariantSet("int32_t", v)
SetStringView == \E s \in VariantStrings : VariantSet("string_view", s)
SetSpan == \E xs \in VariantSpans : VariantSet("span_uint32_t", xs)

\* v.get<T>(): with assertions compiled in, a failed assert aborts before the
\* return statement; under NDEBUG the return statement always runs
VariantGet ==
    \E T \in TypeSet :
        /\ vbuf # <<>>
        /\ ~Aborted
        /\ vget' = IF ndebug \/ Variant_get_asserts(vbuf, T)
                   THEN [type |-> T, returned |-> TRUE, value |-> Variant_get(vbuf, T)]
                   ELSE [type |-> T, returned |-> FALSE, value |-> NoVal]
        /\ UNCHANGED <<vbuf, vlast, vprev, ndebug>>
        /\ UNCHANGED notVariant

\* C5: a created variant is empty and holds no alternative; after set<T>(v),
\* for values of any length, holds_alternative<T>() is true, holds_alternative<U>()
\* is false for every other declared alternative, and index() is T's ordinal.
C5_VariantExclusivity ==
    IF vlast.type = "none"
    THEN Variant_empty(vbuf) /\ \A T \in TypeSet : ~holds_alternative(vbuf, T)
    ELSE /\ holds_alternative(vbuf, vlast.type)
         /\ \A U \in TypeSet \ {vlast.type} : ~holds_alternative(vbuf, U)
         /\ Variant_index(vbuf) = type_index(vlast.type)

\* C10: after set<T>(v) then set<U>(w) with U # T the variant holds only U:
\* index() is U's ordinal, get<U>() passes its asserts and returns w,
\* holds_alternative<T>() is false and fastbin_binary_size() = 8 + byte size of w;
\* writing the index keeps the size and writing the size keeps the index.
C10_SetOverwrites ==
    (vprev.type # "none" /\ vprev.type # vlast.type) =>
        /\ Variant_index(vbuf) = type_index(vlast.type)
        /\ Variant_get_asserts(vbuf, vlast.type)
        /\ Variant_get(vbuf, vlast.type) = vlast.value
        /\ ~holds_alternative(vbuf, vprev.type)
        /\ Variant_fastbin_binary_size(vbuf) = 8 + Len(Payload(vlast.type, vlast.value))
        /\ \A i \in 0..(Len(Types) - 1) :
              Variant_size(Variant_set_index(vbuf, i)) = Variant_size(vbuf)
        /\ \A n \in {8, 12, 13, 255, 256, 65536} :
              Variant_index(Variant_set_size(vbuf, n)) = Variant_index(vbuf)

\* C11: a variant is empty exactly when no set<T>(v) has run on it: right after
\* create, empty() is true, fastbin_binary_size() = 8 and no alternative is
\* held; after any set<T>(v), empty() is false; the created variant has the
\* index of alternative 0 and differs from one holding it by its payload size.
C11_EmptyIffNeverSet ==
    /\ Variant_empty(vbuf) <=> vlast.type = "none"
    /\ vlast.type = "none" =>
          /\ Variant_fastbin_binary_size(vbuf) = 8
          /\ \A T \in TypeSet : ~holds_alternative(vbuf, T)
          /\ Variant_index(vbuf) = type_index(Types[1])
    /\ vlast.type = Types[1] =>
          /\ Variant_index(vbuf) = type_index(Types[1])
          /\ Variant_data_size(vbuf) > 0

\* get<T>() returned a value exactly when the variant holds T, and then the
\* value last set; otherwise it failed an assertion and returned nothing
GetReturnsIffHolds ==
    vget.type # "none" =>
        /\ vget.returned <=> holds_alternative(vbuf, vget.type)
        /\ vget.returned => vget.value = vlast.value
        /\ ~vget.returned => vget.value = NoVal

\* C12 (as stated): get<T>() on a variant that does not hold T (empty, or
\* another alternative active) fails an assertion and returns no value;
\* get<T>() returns a value exactly when holds_alternative<T>() is true.
C12_GetFailsUnlessHeld == GetReturnsIffHolds

\* C12 (amended): in a build with assertions enabled, get<T>() on a variant
\* that does not hold T fails an assertion and returns no value, and get<T>()
\* returns a value, the one last set, exactly when holds_alternative<T>().
C12_GetFailsUnlessHeldWhenAsserting == ~ndebug => GetReturnsIffHolds

C12_Witness ==
    /\ ~ndebug
    /\ vlast.type = "int32_t"
    /\ vget.type = "string_view"
    /\ ~vget.returned
    /\ ~holds_alternative(vbuf, "string_view")

----------------------------------------------------------------------------
(* ChildFixed (ChildFixed.hpp): field1 [int32_t] at 0, field2 [int32_t] at 8; *)
(* no size header; the record is always 16 bytes.                          *)

Fixed_field1_offset == 0
Fixed_field2_offset == 8
\* ChildFixed::fastbin_calc_binary_size, the value of fastbin_fixed_size()
fastbin_fixed_size == 16

Fixed_set_field1(b, value) == Store(b, Fixed_field1_offset, Bytes(value, 4))
Fixed_set_field2(b, value) == Store(b, Fixed_field2_offset, Bytes(value, 4))
Fixed_field1(b) == LE(Slice(b, Fixed_field1_offset, 4))
Fixed_field2(b) == LE(Slice(b, Fixed_field2_offset, 4))
\* ChildFixed::fastbin_finalize: an empty body
Fixed_fastbin_finalize(b) == b

----------------------------------------------------------------------------
(* StructArray<T> (StructArray.hpp): [size_: size_t][count_: size_t] and   *)
(* then the elements back to back.                                          *)

\* size_ref(): *reinterpret_cast<size_t*>(buffer)
size_ref(b) == LoadSize(b, 0)
\* count_ref(): *reinterpret_cast<size_t*>(buffer + sizeof(size_t))
count_ref(b) == LoadSize(b, WordSize)
\* bufferptr(): buffer + 2 * sizeof(size_t)
Array_bufferptr == 2 * WordSize

\* StructArray::create: memset 0, size_ref() = 2 * sizeof(size_t)
Array_create(buffer_size) == Store(ZeroBuffer(buffer_size), 0, Bytes(2 * WordSize, 8))

\* StructArray::size
Array_size(b) == count_ref(b)

\* StructArray::fastbin_binary_size
Array_fastbin_binary_size(b) == size_ref(b)

\* StructArray::fastbin_finalize: an empty body, the size is stored by append
Array_fastbin_finalize(b) == b

\* the assert of append: buffer_size - size_ref() >= el_size
append_fits(b, el_size) == SubSize(Cardinality(DOMAIN b), size_ref(b)) >= el_size

\* what a debug build checks before append writes: StructArray asserts
\* append_fits; in struct_array that assert is commented out
append_asserts(class, b, el_size) ==
    IF class = "StructArray" THEN append_fits(b, el_size) ELSE TRUE

\* a destination that forgets to take the header off the stored size
append_dest_unadjusted(b) == Array_bufferptr + size_ref(b)

\* dest = bufferptr() + (size_ref() - 2 * sizeof(size_t))
append_dest(b) == Array_bufferptr + (size_ref(b) - 2 * WordSize)

\* StructArray::append: memcpy of el_size bytes of element.buffer to dest,
\* size_ref() += el_size, ++count_ref()
Array_append(b, element, el_size) ==
    LET copied == Store(b, append_dest(b), Slice(element, 0, el_size))
        sized == Store(copied, 0, Bytes(size_ref(b) + el_size, 8))
    IN  Store(sized, WordSize, Bytes(count_ref(b) + 1, 8))

\* how many of the el_size bytes memcpy writes at dest lie past the buffer
append_overflow(b, el_size) ==
    LET end == append_dest(b) + el_size
        buffer_size == Cardinality(DOMAIN b)
    IN  IF end > buffer_size THEN end - buffer_size ELSE 0

\* a bounds check that lets n = count through
out_of_range_above(n, count) == n > count

\* if (n >= count_ref()) throw std::out_of_range
out_of_range(n, count) == n >= count

Thrown(n) == [n |-> n, thrown |-> TRUE, ptr |-> 0, buffer_size |-> 0, owns_buffer |-> FALSE]
Opened(n, ptr, buffer_size) ==
    [n |-> n, thrown |-> FALSE, ptr |-> ptr, buffer_size |-> buffer_size, owns_buffer |-> FALSE]

\* get_nth_element for fixed-size T: U::open(bufferptr() + n * fixed_size, fixed_size, false)
get_nth_element_fixed(b, n) ==
    IF out_of_range(n, count_ref(b)) THEN Thrown(n)
    ELSE Opened(n, Array_bufferptr + n * fastbin_fixed_size, fastbin_fixed_size)

RECURSIVE Walk(_, _, _, _, _)
\* for (i = 0; i < n; ++i) { size = *(size_t*)current; current += size; }
Walk(b, current, size, i, n) ==
    IF i >= n \/ current >= Huge THEN <<current, size>>
    ELSE LET stored == LoadSize(b, current)
         IN  Walk(b, IF stored >= Huge THEN Huge ELSE current + stored, stored, i + 1, n)

\* get_nth_element for variable-size T: U::open(current, size, false)
get_nth_element_variable(b, n) ==
    IF out_of_range(n, count_ref(b)) THEN Thrown(n)
    ELSE LET end == Walk(b, Array_bufferptr, LoadSize(b, Array_bufferptr), 0, n)
         IN  Opened(n, end[1], end[2])

is_variable_size(T) == T = "ChildVar"

\* StructArray::operator[]
get_nth_element(T, b, n) ==
    IF is_variable_size(T) THEN get_nth_element_variable(b, n) ELSE get_nth_element_fixed(b, n)

\* struct_array::get_nth_element for variable-size T: as above, but size starts at 0
struct_array_get_nth_element_variable(b, n) ==
    IF out_of_range(n, count_ref(b)) THEN Thrown(n)
    ELSE LET end == Walk(b, Array_bufferptr, 0, 0, n)
         IN  Opened(n, end[1], end[2])

\* operator[] of the array class in use
operator_index(class, T, b, n) ==
    IF class = "struct_array" /\ is_variable_size(T)
    THEN struct_array_get_nth_element_variable(b, n)
    ELSE get_nth_element(T, b, n)

\* begin(): iterator(this, 0)
iter_begin == 0

\* an end() one position late
iter_end_late(b) == count_ref(b) + 1

\* end(): iterator(this, count_ref())
iter_end(b) == count_ref(b)

\* iterator::operator!=: index_ != other.index_
iter_not_equal(index, other) == index # other

\* iterator::operator*: arr_->get_nth_element(index_)
iter_deref(T, b, index) == get_nth_element(T, b, index)

----------------------------------------------------------------------------
(* The array specification: a StructArray<ChildFixed> or StructArray<ChildVar> *)
(* created over a buffer of ArrayBufSize bytes, then appended to and indexed. *)

ArrayBufSize == 2 * WordSize + MaxElements * 32

\* a ChildFixed over its own 16-byte buffer
ChildFixedElement(f1, f2) == Fixed_set_field2(Fixed_set_field1(ZeroBuffer(fastbin_fixed_size), f1), f2)
\* a finalized ChildVar over its own buffer
ChildVarElement(f1, s) ==
    Child_fastbin_finalize(Child_set_field2(Child_set_field1(ZeroBuffer(ChildBufSize), f1), s))

\* element.fastbin_calc_binary_size()
Element_fastbin_calc_binary_size(T, element) ==
    IF is_variable_size(T) THEN Child_fastbin_calc_binary_size(element) ELSE fastbin_fixed_size

RECURSIVE SumCalcSizes(_, _)
\* for (const auto& item : iterable) size += item.fastbin_calc_binary_size()
SumCalcSizes(T, items) ==
    IF items = <<>> THEN 0
    ELSE Element_fastbin_calc_binary_size(T, Head(items)) + SumCalcSizes(T, Tail(items))

\* a pre-sizing that leaves out the two header words
static_calc_without_header(T, items) == SumCalcSizes(T, items)

\* static StructArray::fastbin_calc_binary_size(iterable)
Array_static_calc_binary_size(T, items) == 2 * WordSize + SumCalcSizes(T, items)

Elements(T) ==
    IF is_variable_size(T)
    THEN {ChildVarElement(7, Str(64, n)) : n \in {0, 3, MaxStrLen}}
    ELSE {ChildFixedElement(f1, 2) : f1 \in {1, 70000}}

ArrayInit ==
    /\ akind \in {"ChildFixed", "ChildVar"}
    /\ abuf = Array_create(ArrayBufSize)
    /\ aelems = <<>>
    /\ aview = [view |-> NoView, before |-> abuf]
    /\ aclass = "StructArray"
    /\ aover = 0
    /\ aiter = NoIter
    /\ aplan = <<>>
    /\ Idle("array")

\* the same, for the array class of _struct_array.hpp
struct_array_Init ==
    /\ akind \in {"ChildFixed", "ChildVar"}
    /\ abuf = Array_create(ArrayBufSize)
    /\ aelems = <<>>
    /\ aview = [view |-> NoView, before |-> abuf]
    /\ aclass = "struct_array"
    /\ aover = 0
    /\ aiter = NoIter
    /\ aplan = <<>>
    /\ Idle("array")

\* arr.append(element), in a debug build: a failed assert aborts before the
\* memcpy; after a write outside the buffer the behaviour is undefined and
\* the program is followed no further
ArrayAppend ==
    \E element \in Elements(akind) :
        LET el_size == Element_fastbin_calc_binary_size(akind, element)
        IN  /\ akind # "none"
            /\ aover = 0
            /\ append_asserts(aclass, abuf, el_size)
            /\ abuf' = Array_append(abuf, element, el_size)
            /\ aover' = append_overflow(abuf, el_size)
            /\ aelems' = Append(aelems, Slice(element, 0, el_size))
            /\ aview' = [view |-> NoView, before |-> abuf']
            /\ aiter' = NoIter
            /\ UNCHANGED <<akind, aclass, aplan>>
            /\ UNCHANGED notArray

\* arr[n]: only reads the buffer
ArrayIndex ==
    \E n \in 0..(MaxElements + 1) :
        /\ akind # "none"
        /\ aover = 0
        /\ aview' = [view |-> operator_index(aclass, akind, abuf, n), before |-> abuf]
        /\ UNCHANGED <<akind, abuf, aelems, aclass, aover, aiter, aplan>>
        /\ UNCHANGED notArray

\* for (auto el : arr): begin() and end() are taken once, before the first step
IterBegin ==
    /\ akind # "none"
    /\ aover = 0
    /\ aiter' = [active |-> TRUE, index |-> iter_begin, end |-> iter_end(abuf), yielded |-> <<>>]
    /\ UNCHANGED <<akind, abuf, aelems, aview, aclass, aover, aplan>>
    /\ UNCHANGED notArray

\* one round of the loop: it != end, el = *it, ++it
IterStep ==
    /\ aover = 0
    /\ aiter.active
    /\ iter_not_equal(aiter.index, aiter.end)
    /\ aiter' = [aiter EXCEPT
                    !.yielded = Append(@, iter_deref(akind, abuf, aiter.index)),
                    !.index = @ + 1]
    /\ UNCHANGED <<akind, abuf, aelems, aview, aclass, aover, aplan>>
    /\ UNCHANGED notArray

RECURSIVE SumLen(_)
SumLen(es) == IF es = <<>> THEN 0 ELSE Len(Head(es)) + SumLen(Tail(es))

\* C4: after create and n >= 0 appends of elements of sizes s_1..s_n into a
\* large enough buffer, size() = n, fastbin_binary_size() = 16 + s_1 + ... + s_n,
\* and indexing k < n gives a view at which the k-th appended element's bytes
\* are found, whatever was appended later.
C4_ArrayCountAndSize ==
    /\ Array_size(abuf) = Len(aelems)
    /\ Array_fastbin_binary_size(abuf) = 16 + SumLen(aelems)
    /\ \A k \in 0..(Len(aelems) - 1) :
          LET v == get_nth_element(akind, abuf, k)
          IN  /\ ~v.thrown
              /\ Slice(abuf, v.ptr, Len(aelems[k + 1])) = aelems[k + 1]
              /\ is_variable_size(akind) => LoadSize(abuf, v.ptr) = Len(aelems[k + 1])

C4_Witness ==
    /\ akind = "ChildVar"
    /\ Len(aelems) = 3
    /\ Len(aelems[1]) = 40 /\ Len(aelems[2]) = 24 /\ Len(aelems[3]) = 32
    /\ Array_fastbin_binary_size(abuf) = 112

\* C9: indexing with n >= size() throws and leaves the buffer as it was; with
\* n < size() it returns the element at offset 16 + n * fixed_size (fixed-size
\* elements) or 16 + the sum of the stored sizes of elements 0..n-1
\* (variable-size elements).
C9_IndexBounds ==
    aview.view.n >= 0 =>
        /\ abuf = aview.before
        /\ aview.view.n >= Array_size(abuf) => aview.view.thrown
        /\ aview.view.n < Array_size(abuf) =>
              /\ ~aview.view.thrown
              /\ aview.view.ptr =
                    IF is_variable_size(akind)
                    THEN 16 + SumLen(SubSeq(aelems, 1, aview.view.n))
                    ELSE 16 + aview.view.n * 16

C9_Witness ==
    /\ Len(aelems) = 2
    /\ aview.view.n = 2
    /\ aview.view.thrown
    /\ Array_size(abuf) = 2

\* C20: iterating from begin() to end() with no mutation in between ends
\* after exactly size() steps and yields the elements in storage order: the
\* i-th view yielded is at the buffer position of operator[](i), for
\* fixed-size and variable-size elements alike.
C20_IterationMatchesIndexing ==
    aiter.active =>
        /\ aiter.end = Array_size(abuf)
        /\ aiter.index <= aiter.end
        /\ Len(aiter.yielded) = aiter.index
        /\ ~iter_not_equal(aiter.index, aiter.end) => Len(aiter.yielded) = Array_size(abuf)
        /\ \A i \in 1..Len(aiter.yielded) :
              /\ ~aiter.yielded[i].thrown
              /\ aiter.yielded[i] = get_nth_element(akind, abuf, i - 1)
              /\ aiter.yielded[i].ptr = 16 + SumLen(SubSeq(aelems, 1, i - 1))
              /\ Slice(abuf, aiter.yielded[i].ptr, Len(aelems[i])) = aelems[i]

C20_Witness ==
    /\ aiter.active /\ akind = "ChildVar"
    /\ Array_size(abuf) = 3
    /\ Len(aiter.yielded) = 3
    /\ aiter.index = aiter.end
    /\ Len(aelems[1]) = 40 /\ Len(aelems[2]) = 24
    /\ aiter.yielded[3].ptr = 16 + 40 + 24

\* C24: in an array of variable-size elements the view operator[](n)
\* returns, 0 <= n < size(), starts at the first byte of the n-th element
\* and has the n-th element's stored binary size as its buffer length.
C24_ViewCoversElement ==
    LET v == aview.view
    IN  (akind = "ChildVar" /\ v.n >= 0 /\ ~v.thrown /\ aview.before = abuf) =>
            /\ v.ptr = 16 + SumLen(SubSeq(aelems, 1, v.n))
            /\ v.buffer_size = LoadSize(abuf, v.ptr)
            /\ v.buffer_size = Len(aelems[v.n + 1])

----------------------------------------------------------------------------
(* The pre-sized array: the caller has a collection of finalized elements, *)
(* allocates exactly what the static size calculation returns, creates the *)
(* array over it and appends the elements in order.                        *)

Collections(T) == UNION {[1..n -> Elements(T)] : n \in 0..MaxElements}

PresizedInit ==
    /\ akind \in {"ChildFixed", "ChildVar"}
    /\ aplan \in Collections(akind)
    /\ abuf = Array_create(Array_static_calc_binary_size(akind, aplan))
    /\ aelems = <<>>
    /\ aview = [view |-> NoView, before |-> abuf]
    /\ aclass \in {"StructArray", "struct_array"}
    /\ aover = 0
    /\ aiter = NoIter
    /\ Idle("array")

\* arr.append(item) for the next item of the collection
AppendPlanned ==
    /\ aplan # <<>>
    /\ aover = 0
    /\ LET element == Head(aplan)
           el_size == Element_fastbin_calc_binary_size(akind, element)
       IN  /\ append_asserts(aclass, abuf, el_size)
           /\ abuf' = Array_append(abuf, element, el_size)
           /\ aover' = append_overflow(abuf, el_size)
           /\ aelems' = Append(aelems, Slice(element, 0, el_size))
    /\ aplan' = Tail(aplan)
    /\ aview' = [view |-> NoView, before |-> abuf']
    /\ aiter' = NoIter
    /\ UNCHANGED <<akind, aclass>>
    /\ UNCHANGED notArray

RECURSIVE SumBinarySizes(_)
\* the sum of fastbin_binary_size() over finalized ChildVar elements
SumBinarySizes(items) ==
    IF items = <<>> THEN 0 ELSE fastbin_binary_size(Head(items)) + SumBinarySizes(Tail(items))

\* C21: for a collection of finalized elements the static size calculation
\* returns 16 + the sum of the elements' binary sizes; an array created over
\* a buffer of exactly that length accepts the append of each element, and
\* when all are appended its fastbin_binary_size() is that number.
C21_PresizedArrayIsExact ==
    LET buffer_size == Cardinality(DOMAIN abuf)
        stored == Array_fastbin_binary_size(abuf)
        next_fits ==
            \/ aplan = <<>>
            \/ append_fits(abuf, Element_fastbin_calc_binary_size(akind, Head(aplan)))
        remaining ==
            IF is_variable_size(akind) THEN SumBinarySizes(aplan)
            ELSE Len(aplan) * fastbin_fixed_size
    IN  /\ aover = 0
        /\ next_fits
        /\ aelems = <<>> => buffer_size = Array_static_calc_binary_size(akind, aplan)
        /\ stored + SumCalcSizes(akind, aplan) = buffer_size
        /\ stored + remaining = buffer_size
        /\ stored = 16 + SumLen(aelems)
        /\ Array_size(abuf) = Len(aelems)

C21_Witness ==
    /\ akind = "ChildVar" /\ aplan = <<>>
    /\ Len(aelems) = 3
    /\ Len(aelems[1]) = 40 /\ Len(aelems[2]) = 24 /\ Len(aelems[3]) = 32
    /\ Cardinality(DOMAIN abuf) = 112
    /\ Array_fastbin_binary_size(abuf) = 112

\* C13: in a debug build, an append for which the buffer has fewer than
\* element-size bytes left after the stored total size fails an assertion
\* before any byte is written: no append writes past the end of the array's
\* buffer, and the stored total size never exceeds the buffer length.
C13_AppendStaysInBuffer ==
    /\ aover = 0
    /\ size_ref(abuf) <= Cardinality(DOMAIN abuf)

\* the region of variable-size field f is header, content, zero padding
ZeroPadded(k, b, f, content) ==
    LET off == Offset(k, b, f)
        aligned == VarSizeAligned(b, off)
        pad == Top8(b, off)
    IN  /\ aligned = AlignUp(8 + Len(content))
        /\ pad = aligned - (8 + Len(content))
        /\ Slice(b, off + 8, Len(content)) = content
        /\ \A i \in (off + aligned - pad)..(off + aligned - 1) : ByteAt(b, i) = 0

\* C18: in every variable-length field region of a record created with
\* create, after any sequence of calls of that field's setter, the region is
\* the header, then the content, then 0..7 pad bytes that are all zero.
C18_PadBytesZero ==
    \A f \in done \cap VarFields(kind) :
        ZeroPadded(kind, buf, f,
                   IF f = "values" THEN U32Bytes(setv[f]) ELSE setv[f])

\* a StructArray over a fresh buffer to which the record in b was appended n times
RECURSIVE ArrayOfCopies(_, _, _)
ArrayOfCopies(b, size, n) ==
    IF n = 0 THEN Array_create(2 * WordSize + MaxElements * size)
    ELSE Array_append(ArrayOfCopies(b, size, n - 1), b, size)

C17_MultiplesOfEight ==
    strict =>
        /\ \A f \in FieldSet(kind) :
              /\ Offset(kind, buf, f) % 8 = 0
              /\ FieldSize(kind, buf, f) % 8 = 0
        /\ fin =>
              /\ fastbin_binary_size(buf) % 8 = 0
              /\ \A n \in 0..MaxElements :
                    Array_fastbin_binary_size(
                        ArrayOfCopies(buf, fastbin_binary_size(buf), n)) % 8 = 0

C17_Witness ==
    /\ fin /\ strict /\ kind = "StreamTrade"
    /\ Len(setv["symbol"]) = 1
    /\ Len(setv["trade_id"]) = MaxStrLen
    /\ FieldSize(kind, buf, "symbol") = 16
    /\ fastbin_binary_size(buf) = 8 + 8 * 8 + 16 + AlignUp(8 + MaxStrLen)
    /\ Array_fastbin_binary_size(ArrayOfCopies(buf, fastbin_binary_size(buf), 2))
          = 16 + 2 * fastbin_binary_size(buf)

----------------------------------------------------------------------------
(* Ownership: the three members every view has (buffer, buffer_size,       *)
(* owns_buffer) and the special member functions of the three families of  *)
(* view classes:                                                           *)
(*   "BufferStored"  _BufferStored.hpp, base of Variant and StructArray    *)
(*   "StreamTrade"   StreamTrade.hpp, the same code as Parent in models.hpp *)
(*   "ChildVar"      ChildVar.hpp, the same code as ChildFixed,            *)
(*                   VectorOfUInt32 and struct_array                       *)

Classes == {"BufferStored", "StreamTrade", "ChildVar"}

\* the constructor: buffer(buffer), buffer_size(buffer_size), owns_buffer(owns_buffer)
View(buffer, buffer_size, owns_buffer) ==
    [alive |-> TRUE, buffer |-> buffer, buffer_size |-> buffer_size, owns_buffer |-> owns_buffer]

\* the destructor's condition: if (owns_buffer && buffer != nullptr) delete[] buffer
dtor_deletes(c, this) == this.owns_buffer /\ this.buffer # Null

\* move assignment's release of the target's old buffer: "if (owns_buffer &&
\* buffer) delete[] buffer" in BufferStored and ChildVar, a bare "delete[] buffer"
\* in StreamTrade (delete[] of nullptr does nothing)
assign_deletes(c, this) ==
    IF c = "StreamTrade" THEN this.buffer # Null
    ELSE this.owns_buffer /\ this.buffer # Null

\* what the move constructor leaves in other: buffer = nullptr, buffer_size = 0,
\* and in BufferStored also owns_buffer = false
moved_from_by_ctor(c, other) ==
    [other EXCEPT !.buffer = Null, !.buffer_size = 0,
                  !.owns_buffer = IF c = "BufferStored" THEN FALSE ELSE @]

\* what move assignment leaves in other: buffer = nullptr, buffer_size = 0, and
\* in BufferStored and ChildVar also owns_buffer = false
moved_from_by_assign(c, other) ==
    [other EXCEPT !.buffer = Null, !.buffer_size = 0,
                  !.owns_buffer = IF c \in {"BufferStored", "ChildVar"} THEN FALSE ELSE @]

----------------------------------------------------------------------------
(* The ownership specification: a caller with MaxAllocs buffers from        *)
(* new std::byte[] and MaxViews places for view objects.  The caller hands  *)
(* each buffer to at most one owning view; any number of views may alias it. *)

Allocs == 1..MaxAllocs
Slots == 1..MaxViews
AllocSize(a) == 16 * a

OwnershipInit ==
    /\ cls \in Classes
    /\ views = [v \in Slots |-> NoObject]
    /\ heap = [a \in Allocs |-> "live"]
    /\ releases = [a \in Allocs |-> 0]
    /\ owned = {}
    /\ nonOwnerRelease = FALSE
    /\ lastMove = NoMove
    /\ aliases = {}
    /\ aliasDtor = "none"
    /\ Idle("ownership")

\* the same caller with a single buffer left: the others were released before
OneBufferInit ==
    /\ cls \in Classes
    /\ views = [v \in Slots |-> NoObject]
    /\ heap = [a \in Allocs |-> IF a = 1 THEN "live" ELSE "released"]
    /\ releases = [a \in Allocs |-> IF a = 1 THEN 0 ELSE 1]
    /\ owned = Allocs \ {1}
    /\ nonOwnerRelease = FALSE
    /\ lastMove = NoMove
    /\ aliases = {}
    /\ aliasDtor = "none"
    /\ Idle("ownership")

\* delete[] buffer, run for the view this, if the condition deletes holds
Delete(deletes, this) ==
    IF deletes
    THEN /\ heap' = [heap EXCEPT ![this.buffer] = "released"]
         /\ releases' = [releases EXCEPT ![this.buffer] = IF @ < MaxReleases THEN @ + 1 ELSE @]
         /\ nonOwnerRelease' = (nonOwnerRelease \/ ~this.owns_buffer)
    ELSE UNCHANGED <<heap, releases, nonOwnerRelease>>

\* T::create / T::open / the constructor over a buffer that is still allocated
Open(v, a, owns_buffer) ==
    /\ cls # "none"
    /\ ~views[v].alive
    /\ heap[a] = "live"
    /\ owns_buffer => a \notin owned
    /\ views' = [views EXCEPT ![v] = View(a, AllocSize(a), owns_buffer)]
    /\ owned' = IF owns_buffer THEN owned \cup {a} ELSE owned
    /\ lastMove' = NoMove
    /\ UNCHANGED <<cls, heap, releases, nonOwnerRelease, aliases, aliasDtor>>
    /\ UNCHANGED notOwnership

OpenOwning == \E v \in Slots, a \in Allocs : Open(v, a, TRUE)
OpenAlias == \E v \in Slots, a \in Allocs : Open(v, a, FALSE)

\* the slots a move from s to d leaves holding a getter's view
AliasesAfterMove(d, s) ==
    (aliases \ {d, s}) \cup (IF s \in aliases THEN {d} ELSE {})

\* a flag that makes the getter's view an owner
alias_owns_buffer_set == TRUE

\* the owns_buffer argument of every aliasing getter: Parent::child1() and
\* child2(), StructArray::get_nth_element, Variant::get of a record alternative
alias_owns_buffer == FALSE

\* view v = parent.child2(), arr[n], *it or variant.get<T>(): a view over a
\* region of the buffer of the view in slot p
GetAlias ==
    \E v, p \in Slots :
        /\ cls # "none"
        /\ ~views[v].alive
        /\ views[p].alive /\ views[p].buffer # Null
        /\ heap[views[p].buffer] = "live"
        /\ views' = [views EXCEPT
                        ![v] = View(views[p].buffer, views[p].buffer_size, alias_owns_buffer)]
        /\ aliases' = aliases \cup {v}
        /\ lastMove' = NoMove
        /\ UNCHANGED <<cls, heap, releases, owned, nonOwnerRelease, aliasDtor>>
        /\ UNCHANGED notOwnership

\* T d(std::move(s))
MoveConstruct ==
    \E d, s \in Slots :
        /\ d # s /\ ~views[d].alive /\ views[s].alive
        /\ views' = [views EXCEPT
                        ![d] = View(views[s].buffer, views[s].buffer_size, views[s].owns_buffer),
                        ![s] = moved_from_by_ctor(cls, views[s])]
        /\ lastMove' = [src |-> s, dst |-> d, was |-> views[s]]
        /\ aliases' = AliasesAfterMove(d, s)
        /\ UNCHANGED <<cls, heap, releases, owned, nonOwnerRelease, aliasDtor>>
        /\ UNCHANGED notOwnership

\* d = std::move(s); with this == &other nothing happens
MoveAssign ==
    \E d, s \in Slots :
        /\ views[d].alive /\ views[s].alive
        /\ IF d = s
           THEN UNCHANGED <<views, heap, releases, nonOwnerRelease, lastMove, aliases>>
           ELSE /\ Delete(assign_deletes(cls, views[d]), views[d])
                /\ views' = [views EXCEPT
                                ![d] = View(views[s].buffer, views[s].buffer_size,
                                            views[s].owns_buffer),
                                ![s] = moved_from_by_assign(cls, views[s])]
                /\ lastMove' = [src |-> s, dst |-> d, was |-> views[s]]
                /\ aliases' = AliasesAfterMove(d, s)
        /\ UNCHANGED <<cls, owned, aliasDtor>>
        /\ UNCHANGED notOwnership

\* the view in slot v goes out of scope
Destroy ==
    \E v \in Slots :
        /\ cls # "none"
        /\ views[v].alive
        /\ Delete(dtor_deletes(cls, views[v]), views[v])
        /\ views' = [views EXCEPT ![v] = NoObject]
        /\ lastMove' = NoMove
        /\ aliases' = aliases \ {v}
        /\ aliasDtor' = IF v \notin aliases \/ aliasDtor = "released" THEN aliasDtor
                        ELSE IF dtor_deletes(cls, views[v]) THEN "released" ELSE "kept"
        /\ UNCHANGED <<cls, owned>>
        /\ UNCHANGED notOwnership

\* C6: an allocation is released only by a view whose ownership flag is set and
\* whose handle is non-null, each allocation is released at most once, and a
\* view whose flag is false never causes a release, neither when destroyed nor
\* when it is the target of a move assignment.
C6_ReleasedOnceByOwner ==
    /\ ~nonOwnerRelease
    /\ \A a \in Allocs : releases[a] <= 1

\* C7: a move construction or move assignment gives the destination the source's
\* handle, length and ownership flag and leaves the source with a null handle,
\* length 0 and the ownership flag false.
C7_MoveLeavesSourceInert ==
    lastMove.src # 0 =>
        /\ views[lastMove.dst].buffer = lastMove.was.buffer
        /\ views[lastMove.dst].buffer_size = lastMove.was.buffer_size
        /\ views[lastMove.dst].owns_buffer = lastMove.was.owns_buffer
        /\ views[lastMove.src].buffer = Null
        /\ views[lastMove.src].buffer_size = 0
        /\ views[lastMove.src].owns_buffer = FALSE

\* the live views that own allocation a
Owners(a) == {v \in Slots : views[v].alive /\ views[v].buffer = a /\ views[v].owns_buffer}

\* C15: every view a getter returned over a region of another view's buffer
\* has its ownership flag false, so at most one live view owns a given
\* allocation, and destroying such a view releases nothing: the parent's
\* buffer stays allocated.
C15_AliasesNeverOwn ==
    /\ \A v \in aliases : views[v].alive /\ ~views[v].owns_buffer
    /\ \A a \in Allocs : Cardinality(Owners(a)) <= 1
    /\ aliasDtor # "released"

\* an alias of an owned buffer was made and destroyed; the buffer is still
\* allocated and its owner alive
C15_Witness ==
    \E p, v \in Slots, a \in Allocs :
        /\ Owners(a) = {p}
        /\ v \in aliases /\ views[v].buffer = a /\ ~views[v].owns_buffer
        /\ aliasDtor = "kept"
        /\ heap[a] = "live"
        /\ releases[a] = 0

----------------------------------------------------------------------------
(* copy(): the argument-less deep copy of VectorOfUInt32, StructArray<T>    *)
(* and, inherited from BufferStored, Variant<Types...>.                    *)

\* auto dest_buffer = new std::byte[n]; std::memcpy(dest_buffer, buffer, n)
NewCopy(b, n) == [i \in 0..(n - 1) |-> ByteAt(b, i)]

\* VectorOfUInt32::copy: size = fastbin_binary_size(); return {dest_buffer, size, true}
Vec_copy(b) ==
    LET size == fastbin_binary_size(b)
    IN  [bytes |-> NewCopy(b, size), buffer_size |-> size, owns_buffer |-> TRUE]

\* StructArray::copy: size = fastbin_binary_size(); return {dest_buffer, size, true}
Array_copy(b) ==
    LET size == Array_fastbin_binary_size(b)
    IN  [bytes |-> NewCopy(b, size), buffer_size |-> size, owns_buffer |-> TRUE]

\* BufferStored::copy, which Variant inherits: new std::byte[buffer_size],
\* memcpy of buffer_size bytes, return {dest_buffer, buffer_size, true}
BufferStored_copy(b) ==
    LET buffer_size == Cardinality(DOMAIN b)
    IN  [bytes |-> NewCopy(b, buffer_size), buffer_size |-> buffer_size, owns_buffer |-> TRUE]

----------------------------------------------------------------------------
(* The copy specification: a finalized object is copied once; afterwards   *)
(* the original and the copy are written through their own views.          *)

RECURSIVE ArrayOf(_, _)
\* the array a caller gets who creates it and appends the elements es in order
ArrayOf(T, es) ==
    IF es = <<>> THEN Array_create(ArrayBufSize)
    ELSE LET b == ArrayOf(T, SubSeq(es, 1, Len(es) - 1))
             element == es[Len(es)]
         IN  Array_append(b, element, Element_fastbin_calc_binary_size(T, element))

ElementSeqs(T) ==
    {<<>>} \cup {<<e>> : e \in Elements(T)} \cup {<<e, f>> : e \in Elements(T), f \in Elements(T)}

ElementType(k) == IF k = "StructArray<ChildVar>" THEN "ChildVar" ELSE "ChildFixed"

\* the finalized objects copy() is called on
Originals(k) ==
    CASE k = "VectorOfUInt32" ->
            {Vec_fastbin_finalize(Vec_set_str(Vec_set_values(ZeroBuffer(RecBufSize), xs), s)) :
                xs \in Vectors, s \in Strings}
      [] k \in {"StructArray<ChildFixed>", "StructArray<ChildVar>"} ->
            {ArrayOf(ElementType(k), es) : es \in ElementSeqs(ElementType(k))}
      [] k = "Variant" ->
            {Variant_create(VariantBufSize)}
            \cup {Variant_set(Variant_create(VariantBufSize), "int32_t", v) : v \in VariantInts}
            \cup {Variant_set(Variant_create(VariantBufSize), "string_view", v) :
                    v \in {w \in VariantStrings : Len(w) <= MaxPayload}}
            \cup {Variant_set(Variant_create(VariantBufSize), "span_uint32_t", v) :
                    v \in VariantSpans}

CopyKinds == {"VectorOfUInt32", "StructArray<ChildFixed>", "StructArray<ChildVar>", "Variant"}

\* fastbin_binary_size() of an object of class k
BinarySize(k, b) ==
    CASE k = "VectorOfUInt32" -> fastbin_binary_size(b)
      [] k \in {"StructArray<ChildFixed>", "StructArray<ChildVar>"} -> Array_fastbin_binary_size(b)
      [] k = "Variant" -> Variant_fastbin_binary_size(b)

\* one write through a view of class k: values(...) with as many elements as
\* before, arr[0].field1(99), set<int32_t>(99)
Touch(k, b) ==
    CASE k = "VectorOfUInt32" ->
            Vec_set_values(b, [i \in 1..Len(Vec_values(b)) |-> 5])
      [] k \in {"StructArray<ChildFixed>", "StructArray<ChildVar>"} ->
            LET first == get_nth_element(ElementType(k), b, 0)
                offset == IF is_variable_size(ElementType(k)) THEN _field1_offset
                          ELSE Fixed_field1_offset
            IN  IF first.thrown THEN b ELSE Store(b, first.ptr + offset, Bytes(99, 4))
      [] k = "Variant" ->
            IF Variant_set_fits(b, "int32_t", 99) THEN Variant_set(b, "int32_t", 99) ELSE b

CopyInit ==
    /\ ckind \in CopyKinds
    /\ obuf \in Originals(ckind)
    /\ cbuf = <<>>
    /\ cview = NoCopy
    /\ csnap = <<>>
    /\ ctouched = {}
    /\ Idle("copy")

\* auto c = original.copy()
Copied(k, copy) ==
    /\ ckind = k
    /\ ~cview.alive
    /\ cbuf' = copy.bytes
    /\ cview' = [alive |-> TRUE, buffer_size |-> copy.buffer_size, owns_buffer |-> copy.owns_buffer]
    /\ csnap' = obuf
    /\ UNCHANGED <<ckind, obuf, ctouched>>
    /\ UNCHANGED notCopy

CopyVector == Copied("VectorOfUInt32", Vec_copy(obuf))
CopyArray ==
    \E k \in {"StructArray<ChildFixed>", "StructArray<ChildVar>"} : Copied(k, Array_copy(obuf))
CopyVariant == Copied("Variant", BufferStored_copy(obuf))

\* a write through the original's view after the copy was made
TouchOriginal ==
    /\ cview.alive
    /\ obuf' = Touch(ckind, obuf)
    /\ ctouched' = ctouched \cup {"original"}
    /\ UNCHANGED <<ckind, cbuf, cview, csnap>>
    /\ UNCHANGED notCopy

\* a write through the copy's view
TouchCopy ==
    /\ cview.alive
    /\ cbuf' = Touch(ckind, cbuf)
    /\ ctouched' = ctouched \cup {"copy"}
    /\ UNCHANGED <<ckind, obuf, cview, csnap>>
    /\ UNCHANGED notCopy

\* C8: copy() of a finalized record, array or variant allocates exactly
\* fastbin_binary_size() bytes, copies the finalized region bytewise and returns
\* an owning view; the copy reports the original's binary size, the original is
\* unchanged, and a write to one does not show in the other.
C8_CopyExactAndIndependent ==
    cview.alive =>
        LET size == BinarySize(ckind, csnap)
        IN  /\ Cardinality(DOMAIN cbuf) = size
            /\ cview.owns_buffer
            /\ "copy" \notin ctouched =>
                  /\ Slice(cbuf, 0, size) = Slice(csnap, 0, size)
                  /\ BinarySize(ckind, cbuf) = size
            /\ "original" \notin ctouched => obuf = csnap

----------------------------------------------------------------------------
(* Parent (models.hpp:254-423): [size][field1: int32 in 8 bytes]           *)
(* [child1: ChildFixed, 16 bytes][child2: ChildVar][str: string].  A nested *)
(* record is either copied in by the parent's setter or written in place    *)
(* through the view the parent's getter returns.                            *)

Parent_field1_offset == 8
Parent_child1_offset == 16
Parent_child1_size == 16
Parent_child2_offset == 32

\* the bytes a view opened at buffer + off sees
ViewAt(b, off) == [i \in 0..(Cardinality(DOMAIN b) - off - 1) |-> b[off + i]]

\* writes made through a view opened at buffer + off land in the buffer
WriteThrough(b, off, sub) == [i \in DOMAIN b |-> IF i >= off THEN sub[i - off] ELSE b[i]]

\* Parent::field1(value)
Parent_set_field1(b, value) == Store(b, Parent_field1_offset, Bytes(value, 4))
\* Parent::field1()
Parent_field1(b) == LE(Slice(b, Parent_field1_offset, 4))

\* Parent::child1(const ChildFixed&): copy value.fastbin_binary_size() bytes
Parent_set_child1(b, value) ==
    Store(b, Parent_child1_offset, Slice(value, 0, fastbin_fixed_size))
\* Parent::child1(): ChildFixed(buffer + 16, 16, false)
Parent_child1(b) == ViewAt(b, Parent_child1_offset)

\* fastbin_child2_size(): the size word the child's finalize stored
Parent_child2_size(b) == LoadSize(b, Parent_child2_offset)

\* Parent::child2(const ChildVar&): copy value.fastbin_binary_size() bytes
Parent_set_child2(b, value) ==
    Store(b, Parent_child2_offset, Slice(value, 0, fastbin_binary_size(value)))
\* Parent::child2(): ChildVar(buffer + 32, fastbin_child2_size(), false)
Parent_child2(b) == ViewAt(b, Parent_child2_offset)

\* a str offset that assumes a child with an empty string
str_offset_of_smallest_child(b) == Parent_child2_offset + 24

\* fastbin_str_offset(): fastbin_child2_offset() + fastbin_child2_size()
Parent_str_offset(b) == Parent_child2_offset + Parent_child2_size(b)

Parent_str_size(b) == VarSizeAligned(b, Parent_str_offset(b))

\* Parent::str(value)
Parent_set_str(b, value) == VarSet(b, Parent_str_offset(b), value)
\* Parent::str()
Parent_str(b) == VarGet(b, Parent_str_offset(b))

\* Parent::fastbin_compute_binary_size
Parent_fastbin_compute_binary_size(b) ==
    IF Parent_str_offset(b) >= Huge THEN Huge ELSE Parent_str_offset(b) + Parent_str_size(b)

\* Parent::fastbin_finalize
Parent_fastbin_finalize(b) == Store(b, 0, Bytes(Parent_fastbin_compute_binary_size(b), 8))

----------------------------------------------------------------------------
(* The parent specification: a Parent over a zeroed buffer that is large   *)
(* enough for every content; its fields are written by the setters and     *)
(* through the getters' views, in any order.                                *)

ParentBufSize == Parent_child2_offset + (16 + AlignUp(8 + MaxStrLen)) + AlignUp(8 + MaxStrLen)

ParentStrings == {Str(64, n) : n \in {0, 4, MaxStrLen}}

ParentInit ==
    /\ pbuf = ZeroBuffer(ParentBufSize)
    /\ pvals = <<>>
    /\ c2state = "unset"
    /\ porder = TRUE
    /\ pfin = FALSE
    /\ Idle("parent")

Written(f) == f \in DOMAIN pvals

Noted(f, v) == [g \in DOMAIN pvals \cup {f} |-> IF g = f THEN v ELSE pvals[g]]

\* a write to the parent's buffer; ordered says whether the call kept the
\* documented order
ParentWrites(b, f, v, ordered) ==
    /\ pbuf' = b
    /\ pvals' = IF f = "none" THEN pvals ELSE Noted(f, v)
    /\ porder' = (porder /\ ordered)
    /\ pfin' = FALSE
    /\ UNCHANGED notParent

\* p.field1(v)
ParentSetField1 ==
    \E v \in {123, 70000} :
        /\ ~Written("field1")
        /\ ParentWrites(Parent_set_field1(pbuf, v), "field1", v, TRUE)
        /\ UNCHANGED c2state

\* p.child1(cfix), cfix a ChildFixed over its own buffer
ParentSetChild1 ==
    \E f1 \in {456, 70000} :
        /\ ~Written("child1")
        /\ ParentWrites(Parent_set_child1(pbuf, ChildFixedElement(f1, 789)), "child1", f1, TRUE)
        /\ UNCHANGED c2state

\* p.child2(cvar), cvar a finalized ChildVar over its own buffer (the
\* setter's assert: cvar.fastbin_binary_size() > 0)
ParentSetChild2 ==
    \E s \in ParentStrings :
        LET cvar == ChildVarElement(42, s)
        IN  /\ c2state = "unset"
            /\ fastbin_binary_size(cvar) > 0
            /\ pbuf' = Parent_set_child2(pbuf, cvar)
            /\ pvals' = [g \in DOMAIN pvals \cup {"child2.field1", "child2.field2"} |->
                            IF g = "child2.field1" THEN 42
                            ELSE IF g = "child2.field2" THEN s ELSE pvals[g]]
            /\ c2state' = "final"
            /\ porder' = (porder /\ ~Written("str"))
            /\ pfin' = FALSE
            /\ UNCHANGED notParent

\* p.child2().field1(v)
Child2SetField1 ==
    /\ ~Written("child2.field1")
    /\ ParentWrites(WriteThrough(pbuf, Parent_child2_offset,
                                  Child_set_field1(Parent_child2(pbuf), 789)),
                    "child2.field1", 789, TRUE)
    /\ UNCHANGED c2state

\* p.child2().field2(s)
Child2SetField2 ==
    \E s \in ParentStrings :
        /\ ~Written("child2.field2")
        /\ ParentWrites(WriteThrough(pbuf, Parent_child2_offset,
                                      Child_set_field2(Parent_child2(pbuf), s)),
                        "child2.field2", s, ~Written("str"))
        /\ c2state' = "dirty"

\* p.child2().fastbin_finalize()
Child2Finalize ==
    /\ c2state \in {"unset", "dirty"}
    /\ ParentWrites(WriteThrough(pbuf, Parent_child2_offset,
                                  Child_fastbin_finalize(Parent_child2(pbuf))),
                    "none", 0, ~Written("str"))
    /\ c2state' = IF c2state = "dirty" THEN "final" ELSE "unset"

\* p.str(s)
ParentSetStr ==
    \E s \in ParentStrings :
        /\ ~Written("str")
        /\ ParentWrites(Parent_set_str(pbuf, s), "str", s, c2state = "final")
        /\ UNCHANGED c2state

\* p.fastbin_finalize()
ParentFinalize ==
    /\ ~pfin
    /\ pbuf' = Parent_fastbin_finalize(pbuf)
    /\ pfin' = TRUE
    /\ UNCHANGED <<pvals, c2state, porder>>
    /\ UNCHANGED notParent

\* C14: when the nested ChildVar is finalized before the parent's setter
\* copies it in, or is written through the parent's getter and finalized
\* before a later parent field is set, the field after the child starts at
\* child offset + child.fastbin_binary_size(), the child's getters read
\* through the parent return the child's values, and after the parent's
\* finalize fastbin_binary_size() = the computed binary size.
C14_NestedChild ==
    (porder /\ c2state = "final") =>
        LET child == Parent_child2(pbuf)
            child_size == 16 + AlignUp(8 + Len(pvals["child2.field2"]))
        IN  /\ fastbin_binary_size(child) = child_size
            /\ Parent_str_offset(pbuf) = Parent_child2_offset + fastbin_binary_size(child)
            /\ Parent_str_offset(pbuf) = 32 + child_size
            /\ Child_field2(child) = pvals["child2.field2"]
            /\ Written("child2.field1") => Child_field1(child) = pvals["child2.field1"]
            /\ Written("child1") =>
                  /\ Fixed_field1(Parent_child1(pbuf)) = pvals["child1"]
                  /\ Fixed_field2(Parent_child1(pbuf)) = 789
            /\ Written("field1") => Parent_field1(pbuf) = pvals["field1"]
            /\ Written("str") =>
                  /\ Parent_str(pbuf) = pvals["str"]
                  /\ pfin =>
                        /\ fastbin_binary_size(pbuf) = Parent_fastbin_compute_binary_size(pbuf)
                        /\ fastbin_binary_size(pbuf) =
                              32 + child_size + AlignUp(8 + Len(pvals["str"]))

C14_Witness ==
    /\ porder /\ c2state = "final" /\ pfin
    /\ Written("child2.field1") /\ Written("str")
    /\ Len(pvals["child2.field2"]) = MaxStrLen
    /\ pvals["child2.field1"] = 789
    /\ Len(pvals["str"]) = 4
    /\ Parent_str_offset(pbuf) = 32 + 16 + AlignUp(8 + MaxStrLen)
    /\ Parent_str(pbuf) = Str(64, 4)

----------------------------------------------------------------------------
(* Array views of any length: created over any number of bytes from 8 up,  *)
(* or opened over an array's bytes with a buffer_size that may be shorter  *)
(* than the total size the array stores.                                   *)

\* StructArray::open(buffer, buffer_size, false) over the bytes of b
Array_open(b, buffer_size) == [i \in 0..(buffer_size - 1) |-> ByteAt(b, i)]

AppendedBytes(T, es) ==
    [i \in 1..Len(es) |-> Slice(es[i], 0, Element_fastbin_calc_binary_size(T, es[i]))]

CreateSizes == {8, 16, 16 + 24, 16 + 32, ArrayBufSize}
OpenSizes == {8, 16, 16 + 24, 16 + 32, 16 + 64, ArrayBufSize}

AnyViewInit ==
    /\ akind \in {"ChildFixed", "ChildVar"}
    /\ \/ /\ aelems = <<>>
          /\ \E n \in CreateSizes : abuf = Array_create(n)
       \/ \E es \in ElementSeqs(akind), n \in OpenSizes :
             /\ aelems = AppendedBytes(akind, es)
             /\ abuf = Array_open(ArrayOf(akind, es), n)
    /\ aview = [view |-> NoView, before |-> abuf]
    /\ aclass = "StructArray"
    /\ aover = 0
    /\ aiter = NoIter
    /\ aplan = <<>>
    /\ Idle("array")

\* C27: the capacity check of append, buffer_size - size_ref() >= el_size in
\* size_t arithmetic, passes exactly when size_ref() + el_size <= buffer_size,
\* also for a view whose stored total size is larger than its buffer_size.
C27_CapacityCheckExact ==
    \A element \in Elements(akind) :
        LET el_size == Element_fastbin_calc_binary_size(akind, element)
        IN  append_fits(abuf, el_size) <=>
                size_ref(abuf) + el_size <= Cardinality(DOMAIN abuf)

----------------------------------------------------------------------------
(* A parent record with an array field and a string: VectorOfFixedSized-   *)
(* Structs and VectorOfVariableSizedStructs as the tests use them.  Their  *)
(* generated classes are not among the sources; the accessors follow those *)
(* Parent has for its nested ChildVar: the field's size is the size word   *)
(* stored at its offset, the getter opens a view there, the setter copies  *)
(* fastbin_binary_size() bytes of the value.                               *)

Structs_values_offset == 8

Structs_values_size_aligned(b) == LoadSize(b, Structs_values_offset)

\* v.values(): a struct_array opened at buffer + 8, not owning
Structs_values(b) == ViewAt(b, Structs_values_offset)

\* a setter that copies the elements and leaves out the array's two header words
set_values_elements_only(b, arr) ==
    Store(b, Structs_values_offset,
          Slice(arr, Array_bufferptr, Array_fastbin_binary_size(arr) - Array_bufferptr))

\* v.values(arr): copy arr.fastbin_binary_size() bytes of arr.buffer
Structs_set_values(b, arr) ==
    Store(b, Structs_values_offset, Slice(arr, 0, Array_fastbin_binary_size(arr)))

Structs_str_offset(b) == Structs_values_offset + Structs_values_size_aligned(b)
Structs_str_size_aligned(b) == VarSizeAligned(b, Structs_str_offset(b))
Structs_set_str(b, value) == VarSet(b, Structs_str_offset(b), value)
Structs_str(b) == VarGet(b, Structs_str_offset(b))

Structs_fastbin_calc_binary_size(b) == Structs_str_offset(b) + Structs_str_size_aligned(b)
Structs_fastbin_finalize(b) == Store(b, 0, Bytes(Structs_fastbin_calc_binary_size(b), 8))

StructsBufSize ==
    8 + 2 * WordSize + MaxElements * (16 + AlignUp(8 + MaxStrLen)) + AlignUp(8 + MaxStrLen)

StructsStrings == {Str(64, n) : n \in {0, 4}}

\* two parents created over zeroed buffers; for the first an array created
\* over a buffer of its own, for the second an array created over
\* v.values().buffer
StructsInit ==
    /\ skind \in {"ChildFixed", "ChildVar"}
    /\ sin \in [items : Collections(skind), str : StructsStrings]
    /\ sarr = Array_create(Array_static_calc_binary_size(skind, sin.items))
    /\ sown = ZeroBuffer(StructsBufSize)
    /\ sinp = WriteThrough(ZeroBuffer(StructsBufSize), Structs_values_offset,
                           Array_create(StructsBufSize - Structs_values_offset))
    /\ sstep = [own |-> "build", inp |-> "build"]
    /\ Idle("structs")

NextItem(arr) == sin.items[Array_size(arr) + 1]

\* arr.append(child), the array in its own buffer
OwnAppend ==
    /\ sstep.own = "build"
    /\ Array_size(sarr) < Len(sin.items)
    /\ sarr' = Array_append(sarr, NextItem(sarr),
                            Element_fastbin_calc_binary_size(skind, NextItem(sarr)))
    /\ UNCHANGED <<skind, sin, sown, sinp, sstep>>
    /\ UNCHANGED notStructs

\* arr.fastbin_finalize(); v.values(arr)
OwnCopyIn ==
    /\ sstep.own = "build"
    /\ Array_size(sarr) = Len(sin.items)
    /\ sown' = Structs_set_values(sown, Array_fastbin_finalize(sarr))
    /\ sstep' = [sstep EXCEPT !.own = "copied"]
    /\ UNCHANGED <<skind, sin, sarr, sinp>>
    /\ UNCHANGED notStructs

\* v.str(...) on the parent the array was copied into
OwnSetStr ==
    /\ sstep.own = "copied"
    /\ sown' = Structs_set_str(sown, sin.str)
    /\ sstep' = [sstep EXCEPT !.own = "str"]
    /\ UNCHANGED <<skind, sin, sarr, sinp>>
    /\ UNCHANGED notStructs

OwnFinalize ==
    /\ sstep.own = "str"
    /\ sown' = Structs_fastbin_finalize(sown)
    /\ sstep' = [sstep EXCEPT !.own = "fin"]
    /\ UNCHANGED <<skind, sin, sarr, sinp>>
    /\ UNCHANGED notStructs

\* arr.append(child), the array created over the parent's field region
InPlaceAppend ==
    /\ sstep.inp = "build"
    /\ Array_size(Structs_values(sinp)) < Len(sin.items)
    /\ LET arr == Structs_values(sinp)
           item == NextItem(arr)
       IN  sinp' = WriteThrough(sinp, Structs_values_offset,
                       Array_append(arr, item, Element_fastbin_calc_binary_size(skind, item)))
    /\ UNCHANGED <<skind, sin, sarr, sown, sstep>>
    /\ UNCHANGED notStructs

\* arr.fastbin_finalize(); v.str(...) on the parent the array was built in
InPlaceSetStr ==
    /\ sstep.inp = "build"
    /\ Array_size(Structs_values(sinp)) = Len(sin.items)
    /\ sinp' = Structs_set_str(
                   WriteThrough(sinp, Structs_values_offset,
                                Array_fastbin_finalize(Structs_values(sinp))),
                   sin.str)
    /\ sstep' = [sstep EXCEPT !.inp = "str"]
    /\ UNCHANGED <<skind, sin, sarr, sown>>
    /\ UNCHANGED notStructs

InPlaceFinalize ==
    /\ sstep.inp = "str"
    /\ sinp' = Structs_fastbin_finalize(sinp)
    /\ sstep' = [sstep EXCEPT !.inp = "fin"]
    /\ UNCHANGED <<skind, sin, sarr, sown>>
    /\ UNCHANGED notStructs

\* the bytes of the element v.values()[n] is a view of
ElementAt(b, n) ==
    LET view == get_nth_element(skind, Structs_values(b), n)
    IN  Slice(Structs_values(b), view.ptr,
              Element_fastbin_calc_binary_size(skind, sin.items[n + 1]))

\* C26: a parent whose array field was built in place (create over the
\* field's address, then append) and a parent into which the same array,
\* built in its own buffer, was copied by the setter agree once both are
\* finalized: the field's aligned size is the array's binary size, the
\* following field is at 8 + that size, the elements by index are the same,
\* and the parents' binary sizes are equal.
C26_InPlaceEqualsCopyIn ==
    sstep = [own |-> "fin", inp |-> "fin"] =>
        LET size == Array_fastbin_binary_size(sarr)
            n == Len(sin.items)
        IN  /\ Structs_values_size_aligned(sown) = size
            /\ Structs_values_size_aligned(sinp) = size
            /\ Structs_str_offset(sown) = 8 + size
            /\ Structs_str_offset(sinp) = 8 + size
            /\ Array_size(Structs_values(sown)) = n
            /\ Array_size(Structs_values(sinp)) = n
            /\ \A i \in 0..(n - 1) :
                  /\ ElementAt(sown, i) = ElementAt(sinp, i)
                  /\ ElementAt(sinp, i) = Slice(sin.items[i + 1], 0, Len(ElementAt(sinp, i)))
                  /\ get_nth_element(skind, Structs_values(sown), i)
                        = get_nth_element(skind, Structs_values(sinp), i)
            /\ Structs_str(sown) = sin.str /\ Structs_str(sinp) = sin.str
            /\ fastbin_binary_size(sown) = fastbin_binary_size(sinp)
            /\ fastbin_binary_size(sown) = 8 + size + AlignUp(8 + Len(sin.str))
            /\ Slice(sown, 0, fastbin_binary_size(sown)) = Slice(sinp, 0, fastbin_binary_size(sinp))

C26_Witness ==
    /\ sstep = [own |-> "fin", inp |-> "fin"]
    /\ skind = "ChildVar"
    /\ Len(sin.items) = 3 /\ Len(sin.str) = 4
    /\ Array_fastbin_binary_size(sarr) = 16 + 40 + 24 + 32
    /\ fastbin_binary_size(sinp) = 8 + 112 + 16

----------------------------------------------------------------------------
(* The fixed-size record ChildFixed as the C++ and the Julia generated     *)
(* code lay it out.  The caller allocates fastbin_binary_size() bytes,     *)
(* sets both fields, finalizes, copies the record into a second allocation *)
(* of the same size and reads the fields back from the copy.               *)

\* ChildFixed::_field1_size_aligned, ChildFixed::_field2_size_aligned (C++)
Fixed_field1_size_aligned == 8
Fixed_field2_size_aligned == 8

\* fastbin_field1_offset(obj::ChildFixed), fastbin_field1_size (Julia)
jl_fastbin_field1_offset == 8
jl_fastbin_field1_size == 8
\* fastbin_field2_offset(obj::ChildFixed), fastbin_field2_size (Julia)
jl_fastbin_field2_offset == jl_fastbin_field1_offset + jl_fastbin_field1_size
jl_fastbin_field2_size == 8
\* fastbin_compute_binary_size(obj::ChildFixed), fastbin_binary_size (Julia)
jl_fastbin_binary_size == 16

Langs == {"cpp", "julia"}
FixedFields == {"field1", "field2"}

FixedFieldOffset(lang, f) ==
    CASE lang = "cpp" /\ f = "field1" -> Fixed_field1_offset
      [] lang = "cpp" /\ f = "field2" -> Fixed_field2_offset
      [] lang = "julia" /\ f = "field1" -> jl_fastbin_field1_offset
      [] lang = "julia" /\ f = "field2" -> jl_fastbin_field2_offset

FixedFieldSize(lang, f) ==
    CASE lang = "cpp" /\ f = "field1" -> Fixed_field1_size_aligned
      [] lang = "cpp" /\ f = "field2" -> Fixed_field2_size_aligned
      [] lang = "julia" /\ f = "field1" -> jl_fastbin_field1_size
      [] lang = "julia" /\ f = "field2" -> jl_fastbin_field2_size

FixedRecordSize(lang) == IF lang = "cpp" THEN fastbin_fixed_size ELSE jl_fastbin_binary_size

\* the memory the model follows: the allocation and the bytes next to it
FixedBeyond == 8
FixedMemSize == 16 + FixedBeyond
FixedFills == {0, 255}
FixedValues == {0, 7, 8, 70000}

\* a record over a fresh allocation of its fixed size
FixedInit ==
    /\ \E lang \in Langs, fill \in FixedFills :
          fx = [lang |-> lang,
                mem |-> [i \in 0..(FixedMemSize - 1) |-> IF i < FixedRecordSize(lang) THEN 0 ELSE fill],
                done |-> {}, touched |-> {}, fin |-> FALSE, got |-> <<>>]
    /\ Idle("fixed")

\* the setter of a 4-byte field: one store at buffer + offset
FixedSet(f) ==
    \E value \in FixedValues :
        LET off == FixedFieldOffset(fx.lang, f)
        IN  /\ fx.lang # "none"
            /\ ~fx.fin
            /\ fx' = [fx EXCEPT !.mem = Store(@, off, Bytes(value, 4)),
                                 !.done = @ \cup {f},
                                 !.touched = @ \cup (off..(off + 3))]
            /\ UNCHANGED notFixed

FixedSetField1 == FixedSet("field1")
FixedSetField2 == FixedSet("field2")

\* finalize of a fixed-size record has an empty body
FixedFinalize ==
    /\ fx.lang # "none"
    /\ fx.done = FixedFields
    /\ ~fx.fin
    /\ fx' = [fx EXCEPT !.fin = TRUE]
    /\ UNCHANGED notFixed

\* copy the record's bytes into a new allocation of the same size and read
\* the fields from the copy; a load past the end of the new allocation
\* returns whatever is there
FixedReopen ==
    \E junk \in FixedFills :
        LET n == FixedRecordSize(fx.lang)
            newbuf == [i \in 0..(FixedMemSize - 1) |-> IF i < n THEN fx.mem[i] ELSE junk]
        IN  /\ fx.lang # "none"
            /\ fx.fin
            /\ fx.got = <<>>
            /\ fx' = [fx EXCEPT !.got =
                         [f \in FixedFields |-> LE(Slice(newbuf, FixedFieldOffset(fx.lang, f), 4))]]
            /\ UNCHANGED notFixed

\* C30: a fixed-size record has no self-size header: the first field is at
\* offset 0, each later field at the sum of the 8-byte widths of the fields
\* before it, every field (and so every byte a setter writes) lies inside
\* [0, fixed size), and the C++ and the Julia accessors of the record
\* compute the same offsets.
C30_FixedLayoutInsideRecord ==
    fx.lang # "none" =>
        /\ FixedFieldOffset(fx.lang, "field1") = 0
        /\ FixedFieldOffset(fx.lang, "field2") = FixedFieldSize(fx.lang, "field1")
        /\ \A f \in FixedFields :
              /\ FixedFieldOffset(fx.lang, f) + FixedFieldSize(fx.lang, f) <= FixedRecordSize(fx.lang)
              /\ FixedFieldOffset("cpp", f) = FixedFieldOffset("julia", f)
        /\ \A i \in fx.touched : i < FixedRecordSize(fx.lang)

----------------------------------------------------------------------------
(* Read operations.  One object is followed per run: a VectorOfUInt32, a   *)
(* record array, a variant, or the views over one allocation; between the  *)
(* writes the caller calls the read operations the object has.             *)

VecReadOps ==
    {"values", "str", "_values_offset", "_values_size_aligned", "_values_size_unaligned",
     "_str_offset", "_str_size_aligned", "_str_size_unaligned",
     "fastbin_calc_binary_size", "fastbin_binary_size"}

\* what the const member function op returns
Vec_read(b, op) ==
    CASE op = "values" -> Vec_values(b)
      [] op = "str" -> Vec_str(b)
      [] op = "_values_offset" -> <<_values_offset>>
      [] op = "_values_size_aligned" -> <<_values_size_aligned(b)>>
      [] op = "_values_size_unaligned" -> <<_values_size_unaligned(b)>>
      [] op = "_str_offset" -> <<_str_offset(b)>>
      [] op = "_str_size_aligned" -> <<_str_size_aligned(b)>>
      [] op = "_str_size_unaligned" -> <<_str_size_unaligned(b)>>
      [] op = "fastbin_calc_binary_size" -> <<Vec_fastbin_calc_binary_size(b)>>
      [] op = "fastbin_binary_size" -> <<fastbin_binary_size(b)>>

\* a size calculation that stores its result, as finalize does
after_read_size_stored(b, op) ==
    IF op = "fastbin_calc_binary_size" THEN Vec_fastbin_finalize(b) ELSE b

\* the buffer after the const member function op ran: its body loads from
\* the buffer and stores nothing
Vec_after_read(b, op) == b

ReadsInit == ResetInit \/ ArrayInit \/ VariantInit \/ OneBufferInit

\* a getter, an offset or size function, or a size query of the record
VecRead ==
    \E op \in VecReadOps :
        /\ kind = "VectorOfUInt32"
        /\ rd' = [op |-> op, result |-> Vec_read(buf, op)]
        /\ buf' = Vec_after_read(buf, op)
        /\ UNCHANGED <<kind, done, strict, early, fin, finbuf, refin, rewr, twins>>
        /\ UNCHANGED setv
        /\ UNCHANGED <<varVars, notRead>>

Flag(p) == IF p THEN <<1>> ELSE <<0>>

\* v.index(), v.empty(), v.holds_alternative<T>()
VariantQuery ==
    /\ vbuf # <<>>
    /\ ~Aborted
    /\ \/ rd' = [op |-> "index", result |-> <<Variant_index(vbuf)>>]
       \/ rd' = [op |-> "empty", result |-> Flag(Variant_empty(vbuf))]
       \/ \E T \in TypeSet :
             rd' = [op |-> "holds_alternative", result |-> Flag(holds_alternative(vbuf, T))]
    /\ UNCHANGED <<recVars, varVars, notRead>>

ReadStep ==
    VecRead \/ VariantQuery \/ VariantGet \/ ArrayIndex \/ IterBegin \/ IterStep \/ GetAlias

----------------------------------------------------------------------------
(* Specifications *)

RecNext ==
    \/ SetServerTime \/ SetRecvTime \/ SetSymbol \/ SetFillTime \/ SetSide
    \/ SetPrice \/ SetPriceChgDir \/ SetSize \/ SetTradeId \/ SetBlockTrade
    \/ SetValues \/ SetStr
    \/ Finalize \/ FinalizeAgain
Spec == RecInit /\ [][RecNext]_vars

FixedNext == FixedSetField1 \/ FixedSetField2 \/ FixedFinalize \/ FixedReopen
SpecFixed == FixedInit /\ [][FixedNext]_vars

ReadsNext ==
    \/ SetValuesAgain \/ SetStrAgain \/ Finalize \/ VecRead
    \/ ArrayAppend \/ ArrayIndex \/ IterBegin \/ IterStep
    \/ SetInt32 \/ SetStringView \/ SetSpan \/ VariantGet \/ VariantQuery
    \/ OpenOwning \/ OpenAlias \/ GetAlias \/ Destroy
SpecReads == ReadsInit /\ [][ReadsNext]_vars

TwinsNext == TwinCreate \/ TwinSetValues \/ TwinSetStr \/ TwinFinalize
SpecTwins == TwinsInit /\ [][TwinsNext]_vars

OverwriteNext == SetValuesAgain \/ SetStrAgain \/ OverwriteValues \/ Finalize
SpecOverwrite == ResetInit /\ [][OverwriteNext]_vars

ResetNext == SetValuesAgain \/ SetStrAgain \/ Finalize
SpecReset == ResetInit /\ [][ResetNext]_vars

ExampleNext == ExampleSetA \/ ExampleSetS \/ ExampleSetV \/ ExampleFinalize
SpecExample == ExampleInit /\ [][ExampleNext]_vars

ChildNext == SetField1 \/ SetField2 \/ Finalize
SpecChildVar == ChildInit /\ [][ChildNext]_vars

VariantNext == SetInt32 \/ SetStringView \/ SetSpan \/ VariantGet
SpecVariant == VariantInit /\ [][VariantNext]_vars

ArrayNext == ArrayAppend \/ ArrayIndex \/ IterBegin \/ IterStep
SpecArray == ArrayInit /\ [][ArrayNext]_vars
Spec_struct_array == struct_array_Init /\ [][ArrayNext]_vars

SpecAnyView == AnyViewInit /\ [][ArrayNext]_vars

PresizedNext == AppendPlanned \/ ArrayIndex
SpecPresized == PresizedInit /\ [][PresizedNext]_vars

OwnershipNext == OpenOwning \/ OpenAlias \/ GetAlias \/ MoveConstruct \/ MoveAssign \/ Destroy
SpecOwnership == OwnershipInit /\ [][OwnershipNext]_vars
SpecAliases == OneBufferInit /\ [][OwnershipNext]_vars

CopyNext == CopyVector \/ CopyArray \/ CopyVariant \/ TouchOriginal \/ TouchCopy
SpecCopy == CopyInit /\ [][CopyNext]_vars

StructsNext ==
    \/ OwnAppend \/ OwnCopyIn \/ OwnSetStr \/ OwnFinalize
    \/ InPlaceAppend \/ InPlaceSetStr \/ InPlaceFinalize
SpecStructs == StructsInit /\ [][StructsNext]_vars

ParentNext ==
    \/ ParentSetField1 \/ ParentSetChild1 \/ ParentSetChild2
    \/ Child2SetField1 \/ Child2SetField2 \/ Child2Finalize
    \/ ParentSetStr \/ ParentFinalize
SpecParent == ParentInit /\ [][ParentNext]_vars

====
